---- MODULE Spec2Model ----
(***************************************************************************)
(* The delivery layer of the Starknet token indexer: the Redis checkpoint  *)
(* plugin (lib/redis), the webhook plugin (lib/webhook), the Kafka plugin  *)
(* and the WebSocket plugin (lib/kafka_producer.ts), driven by the message *)
(* stream of one indexer process.  The plugins of an indexer are the       *)
(* checkpoint plugin followed by one sink plugin; the hooks of one message *)
(* run in registration order, one message in flight at a time.             *)
(***************************************************************************)
EXTENDS Integers, Sequences, FiniteSets, TLC

(***************************************************************************)
(* Bounds of the model.                                                    *)
(***************************************************************************)
MaxStored == 2
MaxMessages == 2
MaxTransfers == 3
MaxAttemptsOpt == 1
MaxChunkSize == 2

(***************************************************************************)
(* Program constants.                                                      *)
(***************************************************************************)
DefaultMaxAttempts == 3
DefaultDelayMs == 1000
ConfiguredDelayMs == 2000

(***************************************************************************)
(* Values that are not numbers in the program, as negative numbers: an     *)
(* option left undefined, null, an absent key, NaN and a stored string     *)
(* that is not a decimal number.                                           *)
(***************************************************************************)
Omitted == -1
Null == -1
Absent == -1
NaN == -2
Garbage == -2

VARIABLES
    cfg,            \* the options the plugins were constructed with
    pc,             \* position of the process in the run
    store,          \* value under redisKey in the Redis server
    redisClient,    \* redisPlugin.redisClient is set (TRUE) or null (FALSE)
    startingBlock,  \* indexer.options.startingBlock
    cursor,         \* next block the stream delivers
    nmsgs,          \* messages delivered so far
    msg,            \* the message whose hooks are running
    attempt,        \* attempt / attempts of the running send
    success,        \* success flag of sendToWebhook
    requests,       \* transport sends issued by the running send
    waits,          \* retry delays the running send has waited
    result,         \* what the last send returned
    lastError,      \* lastError of sendToWebSocket
    reconnects,     \* reconnectWebSocket() calls of the running send
    requestHeaders, \* the headers of the last fetch call of the running send
    kafkaProducer,  \* kafkaPlugin.kafkaProducer is set (TRUE) or null (FALSE)
    connects,       \* producer.connect() calls that succeeded
    transferChunks, \* the chunks sendToKafka split the transfers into
    i,              \* index of the chunk being sent
    chunkSuccess,   \* chunkSuccess of the chunk being sent
    allSuccessful,  \* allSuccessful of the chunked send
    produced,       \* the Kafka messages the running send has built
    attemptLog,     \* the producer.send calls of the running send, in order
    wsState,        \* readyState of websocketPlugin.wsClient, or "null"
    wsOrig,         \* the socket run:before created, the only one with a close handler
    ctxRedisPlugin, \* ctx.redisPlugin is set (TRUE) or was never registered (FALSE)
    redisAccess,    \* how a useRedis() call made before the stream starts ended
    startup,        \* what run:before of the checkpoint plugin met, until the stream starts
    hookOutcome,    \* how the sink's message hook ended: returned or threw
    failed,         \* a send has returned failure
    impl,           \* the transform a block is decoded by, "none" while the indexer runs
    events,         \* the events of the block being decoded, with the receipt of each
    eventIndex,     \* the events of the block the transform's loop has been through
    out,            \* the records the transform has pushed
    dpc,            \* where the transform is: "off", "loop", "returned" or "threw"
    indexers,       \* the redisPlugin options of two indexers that share one store
    shared,         \* the keys of the shared store and the value under each
    written,        \* the indexers that have persisted a block to the shared store
    wsAtStart       \* the socket as the running sendToWebSocket found it at its call

storeVars == <<store, redisClient, ctxRedisPlugin, startingBlock>>
streamVars == <<cursor, nmsgs, msg>>
sendVars == <<attempt, success, requests, waits, result, lastError, reconnects, requestHeaders>>
kafkaVars == <<transferChunks, i, chunkSuccess, allSuccessful, produced, attemptLog>>
producerVars == <<kafkaProducer, connects>>
connVars == <<producerVars, wsState, wsOrig>>
histVars == <<startup, redisAccess, hookOutcome, failed>>
decodeVars == <<impl, events, eventIndex, out, dpc>>
keyVars == <<indexers, shared, written>>
vars == <<cfg, pc, storeVars, streamVars, sendVars, kafkaVars, connVars, histVars,
          decodeVars, keyVars, wsAtStart>>

Max(a, b) == IF a >= b THEN a ELSE b

(***************************************************************************)
(* Plugin options.  retry is omitted, or a record either of whose fields   *)
(* may be omitted.                                                         *)
(***************************************************************************)
RetryOptions ==
    {[given |-> FALSE, maxAttempts |-> Omitted, delayMs |-> Omitted]} \cup
    {r \in [given : {TRUE},
            maxAttempts : {Omitted} \cup 0..MaxAttemptsOpt,
            delayMs : {Omitted, ConfiguredDelayMs}] :
        r.maxAttempts # Omitted \/ r.delayMs # Omitted}

\* retry = { maxAttempts: 3, delayMs: 1000 } when the option is omitted
RetryOrDefault(retry) ==
    IF ~retry.given
    THEN [given |-> TRUE, maxAttempts |-> DefaultMaxAttempts,
          delayMs |-> DefaultDelayMs]
    ELSE retry

\* const maxAttempts = retry.maxAttempts ?? 3
MaxAttemptsOf(retry) ==
    LET r == RetryOrDefault(retry)
    IN  IF r.maxAttempts = Omitted THEN DefaultMaxAttempts ELSE r.maxAttempts

\* const delayMs = retry.delayMs ?? 1000
DelayMsOf(retry) ==
    LET r == RetryOrDefault(retry)
    IN  IF r.delayMs = Omitted THEN DefaultDelayMs ELSE r.delayMs

maxAttempts == MaxAttemptsOf(cfg.retry)
delayMs == DelayMsOf(cfg.retry)

(***************************************************************************)
(* Checkpoint store (lib/redis).                                           *)
(***************************************************************************)
StoredValues == {Absent, Garbage} \cup 0..MaxStored

\* Number(lastBlock): a decimal string converts to its value, anything else
\* to NaN
ToNumber(v) == IF v >= 0 THEN v ELSE NaN

\* a read without the guard on the value: Number(null) is 0
getLastProcessedBlockUnguarded(client, value, readOk) ==
    IF ~client THEN Null
    ELSE IF ~readOk THEN Null
    ELSE IF value = Absent THEN 0
    ELSE ToNumber(value)

\* a read that tests the converted number, not the stored string, for truth
getLastProcessedBlockFalsyZero(client, value, readOk) ==
    IF ~client THEN Null
    ELSE IF ~readOk THEN Null
    ELSE IF value = Absent \/ ToNumber(value) = 0 THEN Null
    ELSE ToNumber(value)

\* getLastProcessedBlock: null without a client, on a read error and for an
\* absent key; otherwise Number(value)
getLastProcessedBlock(client, value, readOk) ==
    IF ~client THEN Null
    ELSE IF ~readOk THEN Null
    ELSE IF value = Absent THEN Null
    ELSE ToNumber(value)

\* BigInt(lastBlock + 1) throws a RangeError for NaN
ResumeThrows(lastBlock) == lastBlock = NaN

\* a resume that starts again at the checkpointed block
ResumeBlockSame(lastBlock) == lastBlock

\* indexer.options.startingBlock = BigInt(lastBlock + 1)
ResumeBlock(lastBlock) == lastBlock + 1

\* a write whose failure loses the stored value
persistBlockLossy(client, value, blockNumber, writeOk) ==
    IF ~client THEN value
    ELSE IF ~writeOk THEN Absent
    ELSE blockNumber

\* a write that keeps the higher of the stored and the written height
persistBlockIfHigher(client, value, blockNumber, writeOk) ==
    IF ~client THEN value
    ELSE IF ~writeOk THEN value
    ELSE Max(value, blockNumber)

\* persistBlock: the value under redisKey after the call
persistBlock(client, value, blockNumber, writeOk) ==
    IF ~client THEN value
    ELSE IF ~writeOk THEN value
    ELSE blockNumber

NoMsg == [tag |-> "none", block |-> 0, n |-> 0, transform |-> "ok",
          serializable |-> TRUE, finality |-> "none"]

NoStartup == [createOk |-> FALSE, pingOk |-> FALSE, readOk |-> FALSE,
              lastBlock |-> Null]

\* no sendToWebSocket has been called for the message
NoSocket == [state |-> "none", orig |-> "none"]

NoResult == [done |-> FALSE, success |-> FALSE, error |-> ""]

Sinks == {"webhook", "kafka", "websocket"}

\* chunkSize, and whether the payloads of transformData carry a blockNumber
\* field (keyed), are read by the Kafka plugin alone
NoHeaders == [k \in {} |-> ""]

\* the header maps a caller passes: none, one header of its own, and a map that
\* sets Content-Type itself
CallerHeaders ==
    { NoHeaders,
      [k \in {"Authorization"} |-> "Bearer token"],
      [k \in {"Authorization", "Content-Type"} |->
          IF k = "Authorization" THEN "Bearer token" ELSE "text/plain"] }

DefaultHeaders == [k \in {"Content-Type"} |-> "application/json"]

\* { ...a, ...b }: the keys of both, b's value where both have the key
Spread(a, b) ==
    [k \in DOMAIN a \cup DOMAIN b |-> IF k \in DOMAIN b THEN b[k] ELSE a[k]]

FetchHeadersDefaultLast(headers) == Spread(headers, DefaultHeaders)

\* the headers of the POST: { "Content-Type": "application/json", ...headers }
FetchHeaders(headers) == Spread(DefaultHeaders, headers)

Configs ==
    {c \in [sink : Sinks,
            retry : RetryOptions,
            chunkSize : 1..MaxChunkSize,
            keyed : BOOLEAN,
            sendOnEveryMessage : BOOLEAN,
            startingBlock : {0},
            redisUrl : BOOLEAN,
            indexerId : BOOLEAN,
            target : BOOLEAN,
            headers : CallerHeaders] :
        /\ c.sink # "kafka" => (c.chunkSize = 1 /\ c.keyed)
        \* the message key does not depend on the retry option: payloads
        \* without a blockNumber are sent with the default retry
        /\ ~c.keyed => ~c.retry.given
        \* a configured delay is combined with the smallest chunk size
        /\ (c.retry.given /\ c.retry.delayMs # Omitted) => c.chunkSize = 1
        /\ c.sink # "webhook" => c.headers = NoHeaders}

\* redisPlugin(options) throws without a url and without an indexerId
redisPluginThrows(c) == ~c.redisUrl \/ ~c.indexerId

\* webhookPlugin, kafkaPlugin and websocketPlugin destructure their options and
\* return the plugin: none of them looks at url or brokers
webhookPluginThrows(c) == FALSE

kafkaPluginThrows(c) == FALSE

websocketPluginThrows(c) == FALSE

sinkPluginThrows(c) ==
    CASE c.sink = "webhook" -> webhookPluginThrows(c)
      [] c.sink = "kafka" -> kafkaPluginThrows(c)
      [] c.sink = "websocket" -> websocketPluginThrows(c)

\* brokers.join throws inside connectToKafka's try: without brokers no
\* connection succeeds
ConnectOutcomes(target) == IF target THEN BOOLEAN ELSE {FALSE}

Init ==
    /\ cfg \in Configs
    /\ pc = "new"
    /\ store \in StoredValues
    /\ redisClient = FALSE
    /\ startingBlock = cfg.startingBlock
    /\ cursor = 0
    /\ nmsgs = 0
    /\ msg = NoMsg
    /\ attempt = 0
    /\ success = FALSE
    /\ requests = 0
    /\ waits = <<>>
    /\ result = NoResult
    /\ lastError = ""
    /\ reconnects = 0
    /\ requestHeaders = NoHeaders
    /\ kafkaProducer = FALSE
    /\ connects = 0
    /\ transferChunks = <<>>
    /\ i = 0
    /\ chunkSuccess = FALSE
    /\ allSuccessful = TRUE
    /\ produced = <<>>
    /\ attemptLog = <<>>
    /\ wsState = "null"
    /\ wsOrig = "none"
    /\ ctxRedisPlugin = FALSE
    /\ redisAccess = "none"
    /\ startup = NoStartup
    /\ hookOutcome = "none"
    /\ failed = FALSE
    /\ impl = "none"
    /\ events = <<>>
    /\ eventIndex = 0
    /\ out = <<>>
    /\ dpc = "off"
    /\ indexers = <<>>
    /\ shared = <<>>
    /\ written = {}
    /\ wsAtStart = NoSocket

(***************************************************************************)
(* The plugins array of the indexer definition is built: the checkpoint    *)
(* plugin, then the sink.  A constructor that throws ends the run before   *)
(* any hook is registered.                                                 *)
(***************************************************************************)
Construct ==
    /\ pc = "new"
    /\ pc' = IF redisPluginThrows(cfg) \/ sinkPluginThrows(cfg)
             THEN "misconfigured"
             ELSE "constructed"
    /\ UNCHANGED <<decodeVars, keyVars, wsAtStart, cfg, storeVars, streamVars, sendVars, kafkaVars, connVars, histVars>>

(***************************************************************************)
(* run:before of the checkpoint plugin: create the client, ping, read the  *)
(* checkpoint and set the starting block.  Any error leaves the client     *)
(* null.                                                                   *)
(***************************************************************************)
RedisRunBefore ==
    /\ pc = "constructed"
    /\ \E createOk \in BOOLEAN :
       \E pingOk \in IF createOk THEN BOOLEAN ELSE {FALSE} :
       \E readOk \in IF pingOk THEN BOOLEAN ELSE {FALSE} :
         LET lastBlock == getLastProcessedBlock(TRUE, store, readOk)
             resumes == createOk /\ pingOk /\ lastBlock # Null
             threw == ~createOk \/ ~pingOk \/ (resumes /\ ResumeThrows(lastBlock))
         IN  /\ redisClient' = ~threw
             /\ ctxRedisPlugin' = ~threw
             /\ startingBlock' = IF resumes /\ ~threw
                                 THEN ResumeBlock(lastBlock)
                                 ELSE startingBlock
             /\ startup' = [createOk |-> createOk, pingOk |-> pingOk,
                            readOk |-> readOk,
                            lastBlock |-> IF createOk /\ pingOk THEN lastBlock
                                          ELSE Null]
    /\ pc' = "sinkBefore"
    /\ UNCHANGED <<decodeVars, keyVars, wsAtStart, cfg, store, streamVars, sendVars, kafkaVars, connVars,
                   redisAccess, hookOutcome, failed>>

(***************************************************************************)
(* The message stream.  After the run:before hooks the stream starts at    *)
(* the starting block and hands one message at a time to the message       *)
(* hooks: the data of the next block, or an invalidation (a chain          *)
(* reorganisation) after which the stream resumes from a lower block.      *)
(***************************************************************************)
Transforms == {"ok", "throws", "empty"}

\* the data messages the stream may deliver for block b
\* the finality of a data message: the stream is opened with finality "accepted"
\* and delivers accepted and finalized blocks.  No hook reads it; it is varied
\* where sendOnEveryMessage is false, the option whose documentation names it.
Finalities == {"accepted", "finalized"}

DataMessages(b) ==
    {m \in [tag : {"data"}, block : {b}, n : 0..MaxTransfers,
            transform : Transforms, serializable : BOOLEAN,
            finality : Finalities] :
        /\ cfg.sink # "kafka" => m.n = 0
        /\ cfg.sendOnEveryMessage => m.finality = "finalized"
        /\ m.transform # "ok" => (m.n = 0 /\ m.serializable)}

useRedisUnchecked(registered) == "plugin"

(***************************************************************************)
(* useRedis: returns ctx.redisPlugin, and throws "Redis plugin is not      *)
(* available in context" when the context has none.                        *)
(***************************************************************************)
useRedis(registered) == IF registered THEN "plugin" ELSE "threw"

(***************************************************************************)
(* A caller reaches for the checkpoint plugin through useRedis() once the  *)
(* run:before hooks have run.                                              *)
(***************************************************************************)
UseRedis ==
    /\ pc = "ready"
    /\ redisAccess = "none"
    /\ redisAccess' = useRedis(ctxRedisPlugin)
    /\ UNCHANGED <<decodeVars, keyVars, wsAtStart, cfg, pc, storeVars, streamVars, sendVars, kafkaVars, connVars,
                   startup, hookOutcome, failed>>

StartStream ==
    /\ pc = "ready"
    /\ cursor' = startingBlock
    /\ pc' = "idle"
    /\ startup' = NoStartup
    /\ redisAccess' = "none"
    /\ UNCHANGED <<decodeVars, keyVars, wsAtStart, cfg, storeVars, nmsgs, msg, sendVars, kafkaVars, connVars,
                   hookOutcome, failed>>

\* the locals of a send before it starts
ResetSend ==
    /\ attempt' = 0
    /\ success' = FALSE
    /\ requests' = 0
    /\ waits' = <<>>
    /\ result' = NoResult
    /\ lastError' = ""
    /\ reconnects' = 0
    /\ requestHeaders' = NoHeaders
    /\ wsAtStart' = NoSocket
    /\ transferChunks' = <<>>
    /\ i' = 0
    /\ chunkSuccess' = FALSE
    /\ allSuccessful' = TRUE
    /\ produced' = <<>>
    /\ attemptLog' = <<>>

DeliverData ==
    /\ pc = "idle"
    /\ nmsgs < MaxMessages
    /\ msg' \in DataMessages(cursor)
    /\ cursor' = cursor + 1
    /\ nmsgs' = nmsgs + 1
    /\ pc' = "redisMsg"
    /\ ResetSend
    /\ hookOutcome' = "none"
    /\ UNCHANGED <<decodeVars, keyVars, cfg, storeVars, connVars, startup, redisAccess, failed>>

DeliverInvalidate ==
    /\ pc = "idle"
    /\ nmsgs < MaxMessages
    /\ \E b \in startingBlock..(cursor - 1) :
         /\ msg' = [NoMsg EXCEPT !.tag = "invalidate", !.block = b]
         /\ cursor' = b
    /\ nmsgs' = nmsgs + 1
    /\ pc' = "redisMsg"
    /\ ResetSend
    /\ hookOutcome' = "none"
    /\ UNCHANGED <<decodeVars, keyVars, cfg, storeVars, connVars, startup, redisAccess, failed>>

(***************************************************************************)
(* message hook of the checkpoint plugin: persist the block number of a    *)
(* data message whose header carries a (truthy) block number.              *)
(***************************************************************************)
RedisMessageHook ==
    /\ pc = "redisMsg"
    /\ IF msg.tag = "data" /\ msg.block # 0
       THEN \E writeOk \in BOOLEAN :
              store' = persistBlock(redisClient, store, msg.block, writeOk)
       ELSE store' = store
    /\ pc' = "sinkMsg"
    /\ UNCHANGED <<decodeVars, keyVars, wsAtStart, cfg, redisClient, ctxRedisPlugin, startingBlock, streamVars, sendVars, kafkaVars, connVars, histVars>>

(***************************************************************************)
(* Webhook plugin (lib/webhook).                                           *)
(***************************************************************************)
WebhookRunBefore ==
    /\ pc = "sinkBefore"
    /\ cfg.sink = "webhook"
    /\ pc' = "ready"
    /\ UNCHANGED <<decodeVars, keyVars, wsAtStart, cfg, storeVars, streamVars, sendVars, kafkaVars, connVars, histVars>>

\* the guard of a sink's message hook
HookSends(sendOnEveryMessage, m) == sendOnEveryMessage /\ m.tag = "data"

\* the hook returns to the stream loop
HookReturns ==
    /\ hookOutcome' = "returned"
    /\ pc' = "idle"

\* the hook throws into the stream loop
HookThrows ==
    /\ hookOutcome' = "threw"
    /\ pc' = "crashed"

\* message hook up to the call of sendToWebhook
WebhookMessageHook ==
    /\ pc = "sinkMsg"
    /\ cfg.sink = "webhook"
    /\ IF ~HookSends(cfg.sendOnEveryMessage, msg) THEN HookReturns
       ELSE IF msg.transform = "throws" THEN HookThrows
       ELSE IF msg.transform = "empty" THEN HookReturns
       ELSE /\ pc' = "webhookLoop"
            /\ hookOutcome' = hookOutcome
    /\ UNCHANGED <<decodeVars, keyVars, wsAtStart, cfg, storeVars, streamVars, sendVars, kafkaVars, connVars,
                   startup, redisAccess, failed>>

Responses == {"2xx", "non2xx", "networkError"}

\* fetch(undefined) rejects: without a url every request is a network error
ResponsesFor(target) == IF target THEN Responses ELSE {"networkError"}

\* a delay after every failed attempt, the last one included
WaitAfterAlways(w, done, max, delay) == Append(w, delay)

\* the delays waited after a failed attempt that left `done` attempts made
WaitAfter(w, done, max, delay) ==
    IF done < max THEN Append(w, delay) ELSE w

\* one iteration of the retry loop of sendToWebhook
WebhookAttempt ==
    /\ pc = "webhookLoop"
    /\ attempt < maxAttempts /\ ~success
    /\ \E response \in ResponsesFor(cfg.target) :
         IF msg.serializable /\ response = "2xx"
         THEN /\ requests' = requests + 1
              /\ success' = TRUE
              /\ attemptLog' = Append(attemptLog,
                     [chunk |-> Omitted, attempt |-> attempt + 1, ok |-> TRUE])
              /\ UNCHANGED <<attempt, waits>>
         ELSE /\ requests' = IF msg.serializable THEN requests + 1 ELSE requests
              /\ attemptLog' =
                     IF msg.serializable
                     THEN Append(attemptLog,
                            [chunk |-> Omitted, attempt |-> attempt + 1, ok |-> FALSE])
                     ELSE attemptLog
              /\ attempt' = attempt + 1
              /\ waits' = WaitAfter(waits, attempt + 1, maxAttempts, delayMs)
              /\ UNCHANGED success
    /\ requestHeaders' = IF msg.serializable THEN FetchHeaders(cfg.headers)
                         ELSE requestHeaders
    /\ UNCHANGED <<decodeVars, keyVars, wsAtStart, cfg, pc, storeVars, streamVars, result, lastError, reconnects, transferChunks,
                   i, chunkSuccess, allSuccessful, produced, connVars, histVars>>

\* the send's result, recorded
Record(ok, error) ==
    /\ result' = [done |-> TRUE, success |-> ok, error |-> error]
    /\ failed' = (failed \/ ~ok)
    /\ UNCHANGED <<startup, redisAccess>>

\* a hook that throws when sendToWebhook returns failure
WebhookReturnThrows ==
    /\ pc = "webhookLoop"
    /\ ~(attempt < maxAttempts /\ ~success)
    /\ Record(success, "")
    /\ IF success THEN HookReturns ELSE HookThrows
    /\ UNCHANGED <<decodeVars, keyVars, wsAtStart, cfg, storeVars, streamVars, attempt, success, requests, waits,
                   lastError, reconnects, requestHeaders, kafkaVars, connVars>>

\* sendToWebhook returns success; the hook logs a failure and returns
WebhookReturn ==
    /\ pc = "webhookLoop"
    /\ ~(attempt < maxAttempts /\ ~success)
    /\ Record(success, "")
    /\ HookReturns
    /\ UNCHANGED <<decodeVars, keyVars, wsAtStart, cfg, storeVars, streamVars, attempt, success, requests, waits,
                   lastError, reconnects, requestHeaders, kafkaVars, connVars>>

(***************************************************************************)
(* Kafka plugin (lib/kafka_producer.ts).                                   *)
(***************************************************************************)
\* the transfers of a payload with n of them
Transfers(n) == [k \in 1..n |-> k]

Min(a, b) == IF a <= b THEN a ELSE b

\* a slice that always starts at the head of the array: slice(0, to - from)
SliceFromHead(arr, from, to) ==
    [k \in 1..(Max(Min(to, Len(arr)) - from, 0)) |-> arr[k]]

\* Array.prototype.slice(from, to) for 0 <= from <= to, indices from 0
Slice(arr, from, to) ==
    [k \in 1..(Max(Min(to, Len(arr)) - from, 0)) |-> arr[from + k]]

\* for (let i = 0; i < length; i += chunkSize) push(slice(i, i + chunkSize))
RECURSIVE ChunksFrom(_, _, _)
ChunksFrom(transfers, chunkSize, from) ==
    IF from < Len(transfers)
    THEN <<Slice(transfers, from, from + chunkSize)>>
         \o ChunksFrom(transfers, chunkSize, from + chunkSize)
    ELSE <<>>

TransferChunks(transfers, chunkSize) == ChunksFrom(transfers, chunkSize, 0)

\* data.transfers.length > chunkSize
NeedsChunking(n, chunkSize) == n > chunkSize

\* String(data.blockNumber), or the empty string without a blockNumber field
EmptyString == -1
BlockNumberOf(m) == IF cfg.keyed THEN m.block ELSE EmptyString

\* blockNumber ? `${blockNumber}-chunk-${i}` : undefined
ChunkKey(blockNumber, index) ==
    IF blockNumber # EmptyString THEN <<blockNumber, "chunk", index>> ELSE <<>>

\* the message of chunk `index` (from 0) of `chunks`
ChunkMessage(blockNumber, chunks, index, originalCount) ==
    [key |-> ChunkKey(blockNumber, index),
     transfers |-> chunks[index + 1],
     chunkIndex |-> index,
     totalChunks |-> Len(chunks),
     originalCount |-> originalCount]

\* a connect that does not look at the stored producer
connectToKafkaAnew(producer, connectOk) == connectOk

\* connectToKafka: the producer handle after the call
connectToKafka(producer, connectOk) == producer \/ connectOk

\* connectToKafka: producer.connect() is called, and counted when it succeeds,
\* only without a stored producer
ConnectsAfter(n, producer, connectOk) ==
    IF ~producer /\ connectOk THEN n + 1 ELSE n

KafkaRunBefore ==
    /\ pc = "sinkBefore"
    /\ cfg.sink = "kafka"
    /\ \E connectOk \in ConnectOutcomes(cfg.target) :
         /\ kafkaProducer' = connectToKafka(kafkaProducer, connectOk)
         /\ connects' = ConnectsAfter(connects, kafkaProducer, connectOk)
    /\ pc' = "ready"
    /\ UNCHANGED <<decodeVars, keyVars, wsAtStart, cfg, storeVars, streamVars, sendVars, kafkaVars, wsState, wsOrig,
                   histVars>>

\* message hook and sendToKafka up to its first producer.send: connect, then
\* split the transfers or build the single message
KafkaMessageHook ==
    /\ pc = "sinkMsg"
    /\ cfg.sink = "kafka"
    /\ IF ~HookSends(cfg.sendOnEveryMessage, msg) \/ msg.transform = "empty"
       THEN HookReturns
            /\ UNCHANGED <<sendVars, kafkaVars, connVars, startup, redisAccess, failed>>
       ELSE IF msg.transform = "throws"
       THEN HookThrows
            /\ UNCHANGED <<sendVars, kafkaVars, connVars, startup, redisAccess, failed>>
       ELSE \E connectOk \in ConnectOutcomes(cfg.target) :
              /\ kafkaProducer' = connectToKafka(kafkaProducer, connectOk)
              /\ connects' = ConnectsAfter(connects, kafkaProducer, connectOk)
              /\ UNCHANGED <<wsState, wsOrig>>
              /\ IF ~kafkaProducer'
                 THEN /\ Record(FALSE, "Failed to connect to Kafka")
                      /\ HookReturns
                      /\ UNCHANGED <<attempt, success, requests, waits, lastError, reconnects, requestHeaders,
                                     kafkaVars>>
                 ELSE IF NeedsChunking(msg.n, cfg.chunkSize)
                 THEN /\ transferChunks' =
                           TransferChunks(Transfers(msg.n), cfg.chunkSize)
                      /\ i' = 0
                      /\ allSuccessful' = TRUE
                      /\ pc' = "kafkaChunk"
                      /\ UNCHANGED <<sendVars, chunkSuccess, produced, attemptLog,
                                     histVars>>
                 ELSE IF ~msg.serializable
                 THEN HookThrows
                      /\ UNCHANGED <<sendVars, kafkaVars, startup, redisAccess, failed>>
                 ELSE /\ produced' =
                           <<[key |-> IF BlockNumberOf(msg) # EmptyString
                                      THEN <<BlockNumberOf(msg)>> ELSE <<>>,
                              transfers |-> Transfers(msg.n),
                              chunkIndex |-> Omitted,
                              totalChunks |-> Omitted,
                              originalCount |-> Omitted]>>
                      /\ attempt' = 1
                      /\ pc' = "kafkaSingle"
                      /\ UNCHANGED <<success, requests, waits, result, lastError, reconnects, requestHeaders,
                                     transferChunks, i, chunkSuccess, allSuccessful,
                                     attemptLog, histVars>>
    /\ UNCHANGED <<decodeVars, keyVars, wsAtStart, cfg, storeVars, streamVars>>

\* head of the chunk loop: build the message of chunk i
KafkaChunkBegin ==
    /\ pc = "kafkaChunk"
    /\ i < Len(transferChunks)
    /\ IF ~msg.serializable
       THEN HookThrows
            /\ UNCHANGED <<produced, chunkSuccess, attempt>>
       ELSE /\ produced' = Append(produced,
                    ChunkMessage(BlockNumberOf(msg), transferChunks, i, msg.n))
            /\ chunkSuccess' = FALSE
            /\ attempt' = 1
            /\ pc' = "kafkaChunkSend"
            /\ UNCHANGED hookOutcome
    /\ UNCHANGED <<decodeVars, keyVars, wsAtStart, cfg, storeVars, streamVars, success, requests, waits, result,
                   lastError, reconnects, requestHeaders, transferChunks, i, allSuccessful, attemptLog, connVars,
                   startup, redisAccess, failed>>

\* allSuccessful after a failed attempt of a chunk
AllSuccessfulAfter(all, att, max) == IF att = max THEN FALSE ELSE all

\* a delay that grows with the attempt number
KafkaWaitAfterGrowing(w, att, max, delay) ==
    IF att = max THEN w ELSE Append(w, delay * att)

\* the delays waited after failed attempt `att` (from 1) of a Kafka send
KafkaWaitAfter(w, att, max, delay) ==
    IF att = max THEN w ELSE Append(w, delay)

\* one producer.send of chunk i; a success leaves the retry loop
KafkaChunkAttempt ==
    /\ pc = "kafkaChunkSend"
    /\ attempt <= maxAttempts
    /\ requests' = requests + 1
    /\ \E ok \in BOOLEAN :
         /\ attemptLog' = Append(attemptLog,
                [chunk |-> i, attempt |-> attempt, ok |-> ok])
         /\ IF ok
            THEN /\ chunkSuccess' = TRUE
                 /\ i' = i + 1
                 /\ pc' = "kafkaChunk"
                 /\ UNCHANGED <<attempt, allSuccessful, waits>>
            ELSE /\ allSuccessful' = AllSuccessfulAfter(allSuccessful, attempt, maxAttempts)
                 /\ waits' = KafkaWaitAfter(waits, attempt, maxAttempts, delayMs)
                 /\ attempt' = attempt + 1
                 /\ UNCHANGED <<chunkSuccess, i, pc>>
    /\ UNCHANGED <<decodeVars, keyVars, wsAtStart, cfg, storeVars, streamVars, success, result, lastError, reconnects, requestHeaders,
                   transferChunks, produced, connVars, histVars>>

\* the retry loop of chunk i ends without a success: on to the next chunk
KafkaChunkExhausted ==
    /\ pc = "kafkaChunkSend"
    /\ attempt > maxAttempts
    /\ i' = i + 1
    /\ pc' = "kafkaChunk"
    /\ UNCHANGED <<decodeVars, keyVars, wsAtStart, cfg, storeVars, streamVars, sendVars, transferChunks, chunkSuccess,
                   allSuccessful, produced, attemptLog, connVars, histVars>>

\* after the last chunk: the result of the chunked send
KafkaChunksReturn ==
    /\ pc = "kafkaChunk"
    /\ i >= Len(transferChunks)
    /\ Record(allSuccessful,
              IF allSuccessful THEN "" ELSE "Failed to send some chunks")
    /\ HookReturns
    /\ UNCHANGED <<decodeVars, keyVars, wsAtStart, cfg, storeVars, streamVars, attempt, success, requests, waits,
                   lastError, reconnects, requestHeaders, kafkaVars, connVars>>

\* run:after: the stream has ended; the producer stays connected
KafkaRunAfter ==
    /\ pc = "idle"
    /\ cfg.sink = "kafka"
    /\ pc' = "stopped"
    /\ UNCHANGED <<decodeVars, keyVars, wsAtStart, cfg, storeVars, streamVars, sendVars, kafkaVars, connVars, histVars>>

\* one producer.send of the single message
KafkaSingleAttempt ==
    /\ pc = "kafkaSingle"
    /\ attempt <= maxAttempts
    /\ requests' = requests + 1
    /\ \E ok \in BOOLEAN :
         /\ attemptLog' = Append(attemptLog,
                [chunk |-> Omitted, attempt |-> attempt, ok |-> ok])
         /\ IF ok
            THEN /\ Record(TRUE, "")
                 /\ HookReturns
                 /\ UNCHANGED <<attempt, waits>>
            ELSE IF attempt = maxAttempts
            THEN /\ Record(FALSE, "send error")
                 /\ HookReturns
                 /\ UNCHANGED <<attempt, waits>>
            ELSE /\ waits' = KafkaWaitAfter(waits, attempt, maxAttempts, delayMs)
                 /\ attempt' = attempt + 1
                 /\ UNCHANGED <<pc, result, histVars>>
    /\ UNCHANGED <<decodeVars, keyVars, wsAtStart, cfg, storeVars, streamVars, success, lastError, reconnects, requestHeaders, transferChunks, i,
                   chunkSuccess, allSuccessful, produced, connVars>>

\* the statement after the retry loop of the single message
KafkaSingleFallThrough ==
    /\ pc = "kafkaSingle"
    /\ attempt > maxAttempts
    /\ Record(FALSE, "Unknown error")
    /\ HookReturns
    /\ UNCHANGED <<decodeVars, keyVars, wsAtStart, cfg, storeVars, streamVars, attempt, success, requests, waits,
                   lastError, reconnects, requestHeaders, kafkaVars, connVars>>

(***************************************************************************)
(* WebSocket plugin (lib/kafka_producer.ts).  wsState is the readyState of *)
(* websocketPlugin.wsClient.  wsOrig follows the socket that run:before    *)
(* created, the only socket with a close handler: "current" while it is    *)
(* wsClient and not closed, "closing" once a reconnect has closed and      *)
(* replaced it, "timer" once its close event has scheduled the reconnect   *)
(* timer, "spent" once that timer has fired.                               *)
(***************************************************************************)
WebSocketRunBefore ==
    /\ pc = "sinkBefore"
    /\ cfg.sink = "websocket"
    \* new WebSocket(undefined) throws inside the hook's try: no socket is kept
    /\ IF cfg.target
       THEN /\ wsState' = "CONNECTING"
            /\ wsOrig' = "current"
       ELSE UNCHANGED <<wsState, wsOrig>>
    /\ pc' = "ready"
    /\ UNCHANGED <<decodeVars, keyVars, wsAtStart, cfg, storeVars, streamVars, sendVars, kafkaVars, producerVars,
                   histVars>>

\* a reconnect that is awaited until its socket has opened
ReconnectStateAwaited(state) == "OPEN"

\* reconnectWebSocket: the readyState of wsClient after the call
ReconnectState(state) == IF state = "OPEN" THEN "OPEN" ELSE "CONNECTING"

\* reconnectWebSocket: what becomes of the first socket when the call closes
\* and replaces it
ReconnectOrig(state, orig) ==
    IF state # "OPEN" /\ state # "CLOSED" /\ orig = "current" THEN "closing" ELSE orig

\* Socket events and timers are callbacks of the event loop: they run while
\* the program awaits.  The send loop goes from the end of a delay through
\* reconnectWebSocket() to the readyState check of the next iteration, and
\* from the call of sendToWebSocket to the first check, without awaiting.
EventLoopTurn == pc # "wsLoop"

\* the server accepts the connection of wsClient
SocketOpens ==
    /\ EventLoopTurn
    /\ wsState = "CONNECTING"
    /\ wsState' = "OPEN"
    /\ UNCHANGED <<decodeVars, keyVars, wsAtStart, cfg, pc, storeVars, streamVars, sendVars, kafkaVars, producerVars,
                   wsOrig, histVars>>

\* the connection of wsClient fails or drops; the close handler of the first
\* socket schedules the reconnect timer
SocketCloses ==
    /\ EventLoopTurn
    /\ wsState \in {"CONNECTING", "OPEN"}
    /\ wsState' = "CLOSED"
    /\ wsOrig' = IF wsOrig = "current" THEN "timer" ELSE wsOrig
    /\ UNCHANGED <<decodeVars, keyVars, wsAtStart, cfg, pc, storeVars, streamVars, sendVars, kafkaVars, producerVars,
                   histVars>>

\* the close event of the first socket after a reconnect closed it
ReplacedSocketCloses ==
    /\ EventLoopTurn
    /\ wsOrig = "closing"
    /\ wsOrig' = "timer"
    /\ UNCHANGED <<decodeVars, keyVars, wsAtStart, cfg, pc, storeVars, streamVars, sendVars, kafkaVars, producerVars,
                   wsState, histVars>>

\* the timer of the close handler fires: reconnectWebSocket()
ReconnectTimer ==
    /\ EventLoopTurn
    /\ wsOrig = "timer"
    /\ wsState' = ReconnectState(wsState)
    /\ wsOrig' = "spent"
    /\ UNCHANGED <<decodeVars, keyVars, wsAtStart, cfg, pc, storeVars, streamVars, sendVars, kafkaVars, producerVars,
                   histVars>>

\* message hook up to the call of sendToWebSocket
WebSocketMessageHook ==
    /\ pc = "sinkMsg"
    /\ cfg.sink = "websocket"
    /\ IF ~HookSends(cfg.sendOnEveryMessage, msg) THEN HookReturns
       ELSE IF msg.transform = "throws" THEN HookThrows
       ELSE IF msg.transform = "empty" THEN HookReturns
       ELSE /\ pc' = "wsLoop"
            /\ hookOutcome' = hookOutcome
    /\ wsAtStart' = IF pc' = "wsLoop" THEN [state |-> wsState, orig |-> wsOrig]
                    ELSE wsAtStart
    /\ UNCHANGED <<decodeVars, keyVars, cfg, storeVars, streamVars, sendVars, kafkaVars, connVars,
                   startup, redisAccess, failed>>

\* an iteration that waits and reconnects whatever the attempts made
AfterNotOpenAlways(attempts, max) == "wsWaitReconnect"

\* where an iteration that found the socket not open goes on, with `attempts`
\* made: to the wait and the reconnect, or out of the loop (break)
AfterNotOpen(attempts, max) ==
    IF attempts < max THEN "wsWaitReconnect" ELSE "wsExit"

\* one iteration of the loop of sendToWebSocket, up to its wait or return
WebSocketAttempt ==
    /\ pc = "wsLoop"
    /\ attempt < maxAttempts
    /\ IF wsState # "OPEN"
       THEN /\ lastError' = "WebSocket not connected"
            /\ attempt' = attempt + 1
            /\ pc' = AfterNotOpen(attempt + 1, maxAttempts)
            /\ UNCHANGED <<requests, result, reconnects, requestHeaders, histVars>>
       ELSE IF ~msg.serializable
       THEN /\ lastError' = "not serializable"
            /\ attempt' = attempt + 1
            /\ pc' = IF attempt + 1 < maxAttempts THEN "wsWait" ELSE "wsLoop"
            /\ UNCHANGED <<requests, result, reconnects, requestHeaders, histVars>>
       ELSE /\ requests' = requests + 1
            /\ Record(TRUE, "")
            /\ HookReturns
            /\ UNCHANGED <<attempt, lastError, reconnects, requestHeaders>>
    /\ UNCHANGED <<decodeVars, keyVars, wsAtStart, cfg, storeVars, streamVars, success, waits, kafkaVars, connVars>>

\* the delay after finding the socket not open has passed: reconnectWebSocket()
\* is called and not awaited
WebSocketWaitReconnect ==
    /\ pc = "wsWaitReconnect"
    /\ waits' = Append(waits, delayMs)
    \* reconnectWebSocket resolves false when new WebSocket throws
    /\ IF cfg.target
       THEN /\ wsState' = ReconnectState(wsState)
            /\ wsOrig' = ReconnectOrig(wsState, wsOrig)
       ELSE UNCHANGED <<wsState, wsOrig>>
    /\ reconnects' = reconnects + 1
    /\ pc' = "wsLoop"
    /\ UNCHANGED <<decodeVars, keyVars, wsAtStart, cfg, storeVars, streamVars, attempt, success, requests, result,
                   lastError, requestHeaders, kafkaVars, producerVars, histVars>>

\* the delay after a failed send has passed
WebSocketWait ==
    /\ pc = "wsWait"
    /\ waits' = Append(waits, delayMs)
    /\ pc' = "wsLoop"
    /\ UNCHANGED <<decodeVars, keyVars, wsAtStart, cfg, storeVars, streamVars, attempt, success, requests, result,
                   lastError, reconnects, requestHeaders, kafkaVars, connVars, histVars>>

\* a hook that logs the failure of sendToWebSocket and returns
WebSocketFailureReturns ==
    /\ \/ pc = "wsExit"
       \/ pc = "wsLoop" /\ attempt >= maxAttempts
    /\ Record(FALSE, IF lastError # "" THEN lastError
                     ELSE "Failed to send data to WebSocket after multiple attempts")
    /\ HookReturns
    /\ UNCHANGED <<decodeVars, keyVars, wsAtStart, cfg, storeVars, streamVars, attempt, success, requests, waits,
                   lastError, reconnects, requestHeaders, kafkaVars, connVars>>

\* sendToWebSocket returns failure and the hook throws
WebSocketFailure ==
    /\ \/ pc = "wsExit"
       \/ pc = "wsLoop" /\ attempt >= maxAttempts
    /\ Record(FALSE, IF lastError # "" THEN lastError
                     ELSE "Failed to send data to WebSocket after multiple attempts")
    /\ HookThrows
    /\ UNCHANGED <<decodeVars, keyVars, wsAtStart, cfg, storeVars, streamVars, attempt, success, requests, waits,
                   lastError, reconnects, requestHeaders, kafkaVars, connVars>>

Next ==
    \/ Construct
    \/ RedisRunBefore
    \/ WebhookRunBefore
    \/ UseRedis
    \/ StartStream
    \/ DeliverData
    \/ DeliverInvalidate
    \/ RedisMessageHook
    \/ WebhookMessageHook
    \/ WebhookAttempt
    \/ WebhookReturn
    \/ KafkaRunBefore
    \/ KafkaMessageHook
    \/ KafkaChunkBegin
    \/ KafkaChunkAttempt
    \/ KafkaChunkExhausted
    \/ KafkaChunksReturn
    \/ KafkaSingleAttempt
    \/ KafkaSingleFallThrough
    \/ KafkaRunAfter
    \/ WebSocketRunBefore
    \/ SocketOpens
    \/ SocketCloses
    \/ ReplacedSocketCloses
    \/ ReconnectTimer
    \/ WebSocketMessageHook
    \/ WebSocketAttempt
    \/ WebSocketWaitReconnect
    \/ WebSocketWait
    \/ WebSocketFailure

Spec == Init /\ [][Next]_vars

(***************************************************************************)
(* Properties of the checkpoint.                                           *)
(***************************************************************************)
\* C1: after run:before of the checkpoint plugin, the starting block is N + 1
\* when the store was reached and holds the checkpoint N, and is the
\* configured starting block when no checkpoint is found: the key is absent,
\* the read fails, or the store is unavailable (no client, no ping).
ResumeFromCheckpoint ==
    pc = "sinkBefore" =>
        /\ (startup.readOk /\ store >= 0) => startingBlock = store + 1
        /\ (~startup.readOk \/ store = Absent) => startingBlock = cfg.startingBlock

\* C1: run:before has read the checkpoint 1 and resumes at block 2
ResumedAfterCheckpoint ==
    /\ pc = "sinkBefore"
    /\ startup.readOk
    /\ store = 1
    /\ startingBlock = 2
    /\ redisClient

\* C2: once the hooks of a data message whose payload the sink sent have
\* returned, a checkpoint equal to the block of that message means that the
\* sink completed a successful send for the block.
CheckpointOnlyAfterDelivery ==
    (/\ pc = "idle"
     /\ HookSends(cfg.sendOnEveryMessage, msg)
     /\ msg.transform = "ok"
     /\ requests >= 1
     /\ store = msg.block) => (result.done /\ result.success)

\* C3: no step lowers the value stored under the indexer's key.
CursorOnlyAdvances == [][store' >= store]_vars

\* C3: the stored value changes only in the message hook of the checkpoint
\* plugin, to the block number of the data message it handles, and a write
\* that succeeds stores that block number whatever the stored value was, a
\* higher one included; the stored value therefore never decreases only as
\* long as no data message carries a block number below it.
PersistOverwrites ==
    /\ [](/\ pc = "redisMsg"
          /\ redisClient
          /\ msg.tag = "data"
          /\ msg.block # 0
          => ENABLED (RedisMessageHook /\ store' = msg.block))
    /\ [][store' # store =>
            /\ pc = "redisMsg"
            /\ msg.tag = "data"
            /\ store' = msg.block
            /\ (msg.block >= store => store' >= store)]_vars

\* C3: the hook is about to handle a data message whose block number is below
\* the stored height, with the store available
LowerBlockReachesHook ==
    /\ pc = "redisMsg"
    /\ redisClient
    /\ msg.tag = "data"
    /\ msg.block # 0
    /\ msg.block < store

(***************************************************************************)
(* Properties of the sends.                                                *)
(***************************************************************************)
\* the entries of the attempt log that belong to chunk c
AttemptsOf(c) == {k \in DOMAIN attemptLog : attemptLog[k].chunk = c}

\* the failed attempts of the running send that another attempt follows
RetriedAttempts ==
    {k \in DOMAIN attemptLog :
        ~attemptLog[k].ok /\ attemptLog[k].attempt < maxAttempts}

\* C4: a webhook send of a serializable payload that returns success has
\* issued k requests, the k-th being the first to get a 2xx response, with
\* k <= maxAttempts, and has waited k - 1 delays; one that returns failure
\* has issued exactly maxAttempts requests, none of which got a 2xx response,
\* and has waited maxAttempts - 1 delays (none when maxAttempts is 0).
WebhookAttemptsAndDelays ==
    (cfg.sink = "webhook" /\ result.done /\ msg.serializable) =>
        /\ Len(attemptLog) = requests
        /\ \A k \in DOMAIN attemptLog :
             /\ attemptLog[k].attempt = k
             /\ attemptLog[k].ok <=> (result.success /\ k = requests)
        /\ IF result.success
           THEN /\ requests >= 1
                /\ requests <= maxAttempts
                /\ Len(waits) = requests - 1
           ELSE /\ requests = maxAttempts
                /\ Len(waits) = Max(maxAttempts - 1, 0)

\* C4: a webhook send has failed after the three requests of the default
\* retry budget
WebhookExhaustedDefault ==
    /\ cfg.sink = "webhook"
    /\ result.done
    /\ ~result.success
    /\ msg.serializable
    /\ requests = 3
    /\ Len(waits) = 2

\* C5: no send makes more than maxAttempts attempts per payload (webhook,
\* socket) or per message or chunk (queue); a delay of delayMs, always the
\* same, follows every failed attempt that is retried; maxAttempts is 3 and
\* delayMs is 1000 when the retry option or the field is omitted.
BoundedAttemptsConstantDelay ==
    /\ \A k \in DOMAIN waits : waits[k] = delayMs
    /\ \A k \in DOMAIN attemptLog :
         /\ attemptLog[k].attempt >= 1
         /\ attemptLog[k].attempt <= maxAttempts
    /\ cfg.sink = "kafka" =>
         /\ \A c \in {Omitted} \cup 0..(Len(transferChunks) - 1) :
              Cardinality(AttemptsOf(c)) <= maxAttempts
         /\ requests = Len(attemptLog)
         /\ Len(waits) = Cardinality(RetriedAttempts)
    /\ cfg.sink = "webhook" =>
         /\ attempt <= maxAttempts
         /\ requests <= maxAttempts
         /\ Len(waits) = IF attempt < maxAttempts THEN attempt
                         ELSE Max(maxAttempts - 1, 0)
    /\ cfg.sink = "websocket" =>
         /\ attempt <= maxAttempts
         /\ requests <= 1
         /\ Len(waits) = IF pc \in {"wsWait", "wsWaitReconnect"} THEN attempt - 1
                         ELSE IF attempt < maxAttempts THEN attempt
                         ELSE Max(maxAttempts - 1, 0)
    /\ (~cfg.retry.given \/ cfg.retry.maxAttempts = Omitted) => maxAttempts = 3
    /\ (~cfg.retry.given \/ cfg.retry.delayMs = Omitted) => delayMs = 1000
    /\ (cfg.retry.given /\ cfg.retry.maxAttempts # Omitted) =>
         maxAttempts = cfg.retry.maxAttempts
    /\ (cfg.retry.given /\ cfg.retry.delayMs # Omitted) =>
         delayMs = cfg.retry.delayMs

\* C5: a queue send without a retry option has failed after three attempts
\* and two delays of 1000 ms
QueueExhaustedDefault ==
    /\ cfg.sink = "kafka"
    /\ ~cfg.retry.given
    /\ result.done
    /\ ~result.success
    /\ Len(attemptLog) = 3
    /\ waits = <<1000, 1000>>

\* C6: when a send of the webhook or the queue sink has returned failure, the
\* message hook has returned normally, the stream loop is ready for the next
\* message until the run ends, and a connected producer is still held.
ExhaustionNotFatal ==
    (cfg.sink \in {"webhook", "kafka"} /\ result.done /\ ~result.success) =>
        /\ hookOutcome = "returned"
        /\ pc \in {"idle", "stopped"}
        /\ (cfg.sink = "kafka" /\ requests >= 1) => kafkaProducer

\* C6: after a webhook send that exhausted its attempts, the message of the
\* next block has been delivered successfully
NextBlockAfterExhaustion ==
    /\ cfg.sink = "webhook"
    /\ failed
    /\ maxAttempts >= 1
    /\ result.done
    /\ result.success
    /\ hookOutcome = "returned"

\* C7: a socket send that returns failure has used all maxAttempts attempts
\* without sending and the message hook has thrown; one that returns success
\* has sent once within the budget and the hook has returned.
SocketExhaustionThrows ==
    (cfg.sink = "websocket" /\ result.done) =>
        IF result.success
        THEN /\ hookOutcome = "returned"
             /\ pc = "idle"
             /\ requests = 1
             /\ attempt < maxAttempts
        ELSE /\ hookOutcome = "threw"
             /\ pc = "crashed"
             /\ requests = 0
             /\ attempt = maxAttempts

\* C7: a socket send has used three attempts, waiting twice, without finding
\* the socket open, and the hook has thrown
SocketExhausted ==
    /\ cfg.sink = "websocket"
    /\ result.done
    /\ ~result.success
    /\ attempt = 3
    /\ Len(waits) = 2
    /\ hookOutcome = "threw"

\* C8: the message hooks of the webhook and the queue sink never throw.
OnlySocketExhaustionThrows ==
    cfg.sink \in {"webhook", "kafka"} => hookOutcome # "threw"

(***************************************************************************)
(* Properties of the chunked queue send.                                   *)
(***************************************************************************)
\* the transfers of the messages msgs[from..], in order
RECURSIVE ConcatTransfers(_, _)
ConcatTransfers(msgs, from) ==
    IF from > Len(msgs) THEN <<>>
    ELSE msgs[from].transfers \o ConcatTransfers(msgs, from + 1)

\* ceil(n / size) for size >= 1
CeilDiv(n, size) == (n + size - 1) \div size

\* C9: a queue send that has built its messages has chunked the payload if
\* and only if its n transfers exceed chunkSize; when chunked there are
\* ceil(n / chunkSize) messages, with totalChunks = ceil(n / chunkSize),
\* chunkIndex 0, 1, ..., originalCount = n, at most chunkSize transfers each,
\* the key {blockNumber}-chunk-{index} for a payload that carries its block
\* number, and the chunks concatenated in index order are the transfers of
\* the payload; otherwise the one message holds all the transfers.
ChunkingPartitionsTransfers ==
    (cfg.sink = "kafka" /\ result.done /\ produced # <<>>) =>
        LET n == msg.n
            total == CeilDiv(n, cfg.chunkSize)
            chunked == produced[1].chunkIndex # Omitted
        IN  /\ chunked <=> n > cfg.chunkSize
            /\ ConcatTransfers(produced, 1) = Transfers(n)
            /\ IF chunked
               THEN /\ Len(produced) = total
                    /\ \A k \in DOMAIN produced :
                         /\ produced[k].chunkIndex = k - 1
                         /\ produced[k].totalChunks = total
                         /\ produced[k].originalCount = n
                         /\ Len(produced[k].transfers) >= 1
                         /\ Len(produced[k].transfers) <= cfg.chunkSize
                         /\ cfg.keyed =>
                              produced[k].key = <<msg.block, "chunk", k - 1>>
               ELSE Len(produced) = 1

\* C9: three transfers with chunkSize 2 have been sent as two chunks, of two
\* transfers and of one
ThreeTransfersInTwoChunks ==
    /\ cfg.sink = "kafka"
    /\ cfg.chunkSize = 2
    /\ cfg.keyed
    /\ msg.n = 3
    /\ result.done
    /\ Len(produced) = 2
    /\ Len(produced[1].transfers) = 2
    /\ Len(produced[2].transfers) = 1

\* C10: in a chunked queue send the attempts go chunk by chunk in increasing
\* chunk index, those of one chunk numbered 1, 2, ... up to maxAttempts at
\* most and each after a failed one; every chunk is attempted whatever became
\* of the chunks before it; and the send returns failure if some chunk was
\* left without an accepted producer.send.
ChunksSentIndependently ==
    (cfg.sink = "kafka" /\ result.done /\ transferChunks # <<>>) =>
        /\ \A k \in DOMAIN attemptLog :
             /\ attemptLog[k].attempt <= maxAttempts
             /\ k > 1 =>
                  \/ /\ attemptLog[k].chunk = attemptLog[k - 1].chunk
                     /\ attemptLog[k].attempt = attemptLog[k - 1].attempt + 1
                     /\ ~attemptLog[k - 1].ok
                  \/ /\ attemptLog[k].chunk = attemptLog[k - 1].chunk + 1
                     /\ attemptLog[k].attempt = 1
        /\ \A c \in 0..(Len(transferChunks) - 1) :
             /\ maxAttempts >= 1 => AttemptsOf(c) # {}
             /\ (\A k \in AttemptsOf(c) : ~attemptLog[k].ok) => ~result.success

\* C10: the same for a retry budget of at least one attempt.
ChunksSentIndependentlyWithBudget ==
    maxAttempts >= 1 => ChunksSentIndependently

\* C10: a chunked send has returned failure although the chunk after the
\* exhausted one was accepted
LaterChunkSentAfterExhaustion ==
    /\ cfg.sink = "kafka"
    /\ result.done
    /\ ~result.success
    /\ \E k \in DOMAIN attemptLog :
         /\ k > 1
         /\ attemptLog[k].ok
         /\ attemptLog[k].chunk = 1
         /\ ~attemptLog[k - 1].ok
         /\ attemptLog[k - 1].chunk = 0

(***************************************************************************)
(* Properties of the connections.                                          *)
(***************************************************************************)
\* C11: the queue sink connects a producer at most once; the stored producer
\* handle is set exactly when that connect has succeeded and, once set, is
\* never cleared or replaced, by run:after included; every producer.send goes
\* through the stored producer.
ProducerConnectedOnce ==
    /\ [](connects <= 1 /\ (kafkaProducer <=> connects = 1))
    /\ [][kafkaProducer => (kafkaProducer' /\ connects' = connects)]_vars
    /\ [][Len(attemptLog') > Len(attemptLog) /\ cfg.sink = "kafka"
            => kafkaProducer /\ kafkaProducer']_vars

\* C11: run:after has run after the sends of two messages, the second one
\* through the producer connected before the first
ProducerKeptAfterRun ==
    /\ pc = "stopped"
    /\ cfg.sink = "kafka"
    /\ nmsgs = 2
    /\ requests >= 1
    /\ failed
    /\ kafkaProducer
    /\ connects = 1

\* C12: whenever the current socket goes to Closed, a background reconnect is
\* scheduled or about to be: the reconnect timer of a close handler is
\* pending, or the close event that schedules it is.
ClosedSchedulesReconnect ==
    [][(wsState' = "CLOSED" /\ wsState # "CLOSED")
         => wsOrig' \in {"timer", "closing"}]_vars

\* C12: the current socket, created by a reconnect, is closed and no
\* reconnect timer is pending or will be scheduled
ClosedWithoutReconnect ==
    /\ cfg.sink = "websocket"
    /\ wsState = "CLOSED"
    /\ wsOrig = "spent"
    /\ pc = "idle"
    /\ nmsgs = 0

\* C13: in a socket send of a serializable payload every failed attempt is an
\* iteration that found the socket not open; each of them but the one that
\* uses up maxAttempts is followed by one wait of delayMs and one call of
\* reconnectWebSocket before the next iteration; after the final attempt
\* nothing is waited and nothing reconnected, and the send returns failure
\* with the error 'WebSocket not connected'.
NotOpenSharesBudget ==
    (cfg.sink = "websocket" /\ msg.serializable) =>
        /\ attempt <= maxAttempts
        /\ reconnects = Len(waits)
        /\ \A k \in DOMAIN waits : waits[k] = delayMs
        /\ pc = "wsWaitReconnect" =>
             (attempt < maxAttempts /\ reconnects = attempt - 1)
        /\ pc = "wsLoop" => reconnects = attempt
        /\ pc = "wsExit" =>
             (attempt = maxAttempts /\ reconnects = attempt - 1)
        /\ (result.done /\ ~result.success /\ maxAttempts >= 1) =>
             /\ attempt = maxAttempts
             /\ reconnects = maxAttempts - 1
             /\ requests = 0
             /\ result.error = "WebSocket not connected"

\* C13: a socket send has returned 'WebSocket not connected' after three
\* attempts, two waits and two reconnect calls
NotConnectedAfterBudget ==
    /\ cfg.sink = "websocket"
    /\ msg.serializable
    /\ result.done
    /\ result.error = "WebSocket not connected"
    /\ attempt = 3
    /\ reconnects = 2
    /\ Len(waits) = 2

\* C14: no reconnect closes or replaces a connection attempt that is still
\* Connecting: while the socket that run:before created is Connecting, it
\* stays the current socket until it opens or closes by itself.
ReconnectSparesConnecting ==
    [][(wsState = "CONNECTING" /\ wsOrig = "current")
         => wsOrig' \in {"current", "timer"}]_vars

\* C14: a send's reconnect has closed and replaced the first socket, whose
\* close event is still to come, and the replacement is Connecting
ConnectingAttemptReplaced ==
    /\ cfg.sink = "websocket"
    /\ wsOrig = "closing"
    /\ wsState = "CONNECTING"
    /\ reconnects = 1

(***************************************************************************)
(* The block decoders.  A hex string is a sequence of one-character        *)
(* strings; an integer of any size is the set of the positions of its one  *)
(* bits, so that no value is cut to the width of the checker's integers.   *)
(***************************************************************************)
Undefined == <<"undefined">>

LowerOf ==
    [c \in {"A", "B", "C", "D", "E", "F", "X"} |->
        CASE c = "A" -> "a" [] c = "B" -> "b" [] c = "C" -> "c" [] c = "D" -> "d"
          [] c = "E" -> "e" [] c = "F" -> "f" [] c = "X" -> "x"]

toLowerCase(str) ==
    [j \in DOMAIN str |-> IF str[j] \in DOMAIN LowerOf THEN LowerOf[str[j]] ELSE str[j]]

RECURSIVE StripZeros(_)
StripZeros(str) ==
    IF str # <<>> /\ Head(str) = "0" THEN StripZeros(Tail(str)) ELSE str

\* str.replace(/^0x0+/, "0x")
ReplaceLeadingZeros(str) ==
    IF Len(str) >= 3 /\ SubSeq(str, 1, 3) = <<"0", "x", "0">>
    THEN <<"0", "x">> \o StripZeros(SubSeq(str, 3, Len(str)))
    ELSE str

removeLeadingZerosKeepCase(hexString) == ReplaceLeadingZeros(hexString)

\* removeLeadingZeros: lower case, then the zeros after a leading 0x removed
removeLeadingZeros(hexString) == ReplaceLeadingZeros(toLowerCase(hexString))

\* keys?.[0] and the like: the element, or undefined
At(seq, j) == IF j \in DOMAIN seq THEN seq[j] ELSE Undefined

\* removeLeadingZeros(undefined) throws a TypeError at toLowerCase
removeLeadingZerosThrows(x) == x = Undefined

HexDigitValue ==
    [c \in {"0", "1", "2", "3", "4", "5", "6", "7", "8", "9",
            "a", "b", "c", "d", "e", "f"} |->
        CASE c = "0" -> 0 [] c = "1" -> 1 [] c = "2" -> 2 [] c = "3" -> 3
          [] c = "4" -> 4 [] c = "5" -> 5 [] c = "6" -> 6 [] c = "7" -> 7
          [] c = "8" -> 8 [] c = "9" -> 9 [] c = "a" -> 10 [] c = "b" -> 11
          [] c = "c" -> 12 [] c = "d" -> 13 [] c = "e" -> 14 [] c = "f" -> 15]

\* BigInt(str) accepts 0x followed by at least one hex digit
IsHex(str) ==
    /\ Len(str) >= 3
    /\ SubSeq(toLowerCase(str), 1, 2) = <<"0", "x">>
    /\ \A j \in 3..Len(str) : toLowerCase(str)[j] \in DOMAIN HexDigitValue

Pow2(b) == IF b = 0 THEN 1 ELSE IF b = 1 THEN 2 ELSE IF b = 2 THEN 4 ELSE 8

\* BigInt(str) of a hex string, as the set of the positions of its one bits
BigIntOf(str) ==
    LET l == toLowerCase(str)
    IN  {4 * (Len(l) - j) + b : j \in 3..Len(l), b \in 0..3} \cap
        {p \in 0..(4 * Len(l)) :
            \E j \in 3..Len(l) : \E b \in 0..3 :
                /\ p = 4 * (Len(l) - j) + b
                /\ (HexDigitValue[l[j]] \div Pow2(b)) % 2 = 1}

LimbBits == 128

MantissaBits == 53

MaxOf(S) == CHOOSE x \in S : \A y \in S : y <= x

RECURSIVE AddBit(_, _)
AddBit(v, p) == IF p \in v THEN AddBit(v \ {p}, p + 1) ELSE v \cup {p}

\* Number(v) and BigNumber(v).toNumber(): the nearest double, ties to even
Number(v) ==
    IF v = {} THEN {}
    ELSE LET top == MaxOf(v)
             lsb == top - (MantissaBits - 1)
             kept == {p \in v : p >= lsb}
             half == (lsb - 1) \in v
             below == {p \in v : p < lsb - 1}
         IN  IF half /\ (below # {} \/ lsb \in v) THEN AddBit(kept, lsb) ELSE kept

\* new CairoUint256({low, high}) throws unless both limbs are integers below 2^128
Uint256Throws(low, high) ==
    \/ ~IsHex(low) \/ ~IsHex(high)
    \/ \E p \in BigIntOf(low) \cup BigIntOf(high) : p >= LimbBits

\* uint.toBigInt(): low + high * 2^128
Uint256ToBigInt(low, high) ==
    BigIntOf(low) \cup {p + LimbBits : p \in BigIntOf(high)}

\* the selector of Transfer, as the stream filter writes it
TransferSelector ==
    <<"0", "x", "9", "9", "c", "d", "8", "b", "d", "e", "5", "5", "7", "8",
      "1", "4", "8", "4", "2", "a", "3", "1", "2", "1", "e", "8", "d", "d",
      "f", "d", "4", "3", "3", "a", "5", "3", "9", "b", "8", "c", "9", "f",
      "1", "4", "b", "f", "3", "1", "e", "b", "f", "1", "0", "8", "d", "1",
      "2", "e", "6", "1", "9", "6", "e", "9">>

\* the selectors of TokenCreated and TokenUpgraded
TokenCreatedSelector ==
    <<"0", "x", "1", "e", "c", "7", "3", "f", "4", "5", "7", "d", "5", "e",
      "a", "9", "9", "5", "7", "c", "f", "9", "8", "e", "f", "7", "a", "1",
      "f", "f", "b", "4", "d", "d", "5", "b", "1", "c", "7", "9", "0", "f",
      "3", "2", "0", "d", "c", "3", "0", "5", "3", "b", "5", "1", "d", "a",
      "5", "6", "2", "6", "0", "e", "8", "1", "0">>

TokenUpgradedSelector ==
    <<"0", "x", "1", "6", "0", "8", "c", "5", "0", "8", "0", "a", "a", "f",
      "5", "6", "c", "7", "1", "0", "2", "1", "2", "1", "d", "c", "4", "0",
      "a", "c", "a", "f", "6", "e", "8", "4", "4", "2", "e", "3", "4", "8",
      "6", "1", "d", "f", "2", "7", "5", "b", "0", "a", "1", "3", "d", "7",
      "6", "6", "2", "0", "0", "a", "f", "9", "7">>

\* the same selector as the stream and getSelector write it: padded with zeros
\* after 0x, and in the other letter case
Padded(hexString) == <<"0", "x", "0", "0">> \o SubSeq(hexString, 3, Len(hexString))

UpperOf ==
    [c \in {"a", "b", "c", "d", "e", "f"} |->
        CASE c = "a" -> "A" [] c = "b" -> "B" [] c = "c" -> "C" [] c = "d" -> "D"
          [] c = "e" -> "E" [] c = "f" -> "F"]

Upper(str) ==
    [j \in DOMAIN str |-> IF str[j] \in DOMAIN UpperOf THEN UpperOf[str[j]] ELSE str[j]]

OtherSelector == <<"0", "x", "1", "2", "3", "4">>

Felt1 == <<"0", "x", "1">>

Felt2 == <<"0", "x", "0", "2">>

Felt0 == <<"0", "x", "0">>

Felt5 == <<"0", "x", "5">>

\* 2^53 + 1, which no double holds
FeltAbove53 ==
    <<"0", "x", "2", "0", "0", "0", "0", "0", "0", "0", "0", "0", "0", "0", "0", "1">>

\* 2^128, one more than a limb holds
FeltAbove128 ==
    <<"0", "x", "1">> \o [j \in 1..32 |-> "0"]

NotHex == <<"z", "z">>

(***************************************************************************)
(* Events and receipts.  An event carries the receipt that                 *)
(* receipts.find(rx => rx.meta.transactionIndex === transactionIndex)      *)
(* returns for it; the position of the event in the block stands for its   *)
(* transaction.                                                            *)
(***************************************************************************)
NoReceipt == [found |-> FALSE, hasFee |-> FALSE, amount |-> Undefined, unit |-> ""]

ReceiptWithFee == [found |-> TRUE, hasFee |-> TRUE, amount |-> Felt5, unit |-> "wei"]

ReceiptWithoutFee == [found |-> TRUE, hasFee |-> FALSE, amount |-> Undefined, unit |-> ""]

ReceiptWithBadAmount == [found |-> TRUE, hasFee |-> TRUE, amount |-> NotHex, unit |-> "fri"]

Receipts == {NoReceipt, ReceiptWithFee, ReceiptWithoutFee, ReceiptWithBadAmount}

Event(keys, data, receipt) == [keys |-> keys, data |-> data, receipt |-> receipt]

WellFormedTransfer(receipt) ==
    Event(<<Padded(TransferSelector)>>, <<Felt1, Felt2, Felt5, Felt0>>, receipt)

WrongArity == Event(<<TransferSelector>>, <<Felt1, Felt2, Felt5>>, NoReceipt)

NoKeys == Event(<<>>, <<>>, NoReceipt)

UndecodableValue ==
    Event(<<TransferSelector>>, <<Felt1, Felt2, FeltAbove128, Felt0>>, NoReceipt)

TokenCreatedEvent == Event(<<Padded(TokenCreatedSelector), Felt5, Felt0>>, <<>>, NoReceipt)

TokenAbove53 == Event(<<TokenUpgradedSelector, FeltAbove53, Felt0>>, <<>>, NoReceipt)

EventShapes ==
    {WellFormedTransfer(r) : r \in Receipts} \cup
    { Event(<<Upper(TransferSelector)>>, <<Felt1, Felt2, Felt5, Felt0>>, NoReceipt),
      Event(<<TransferSelector, Felt1, Felt2>>, <<Felt5, Felt1>>, NoReceipt),
      WrongArity,
      NoKeys,
      Event(<<OtherSelector>>, <<Felt1, Felt2, Felt5, Felt0>>, NoReceipt),
      UndecodableValue,
      TokenCreatedEvent,
      TokenAbove53,
      Event(<<TokenCreatedSelector>>, <<Felt5, Felt0>>, NoReceipt) }

MaxEvents == 2

Blocks == UNION {[1..n -> EventShapes] : n \in 0..MaxEvents}

Decoders == {"transfers", "tokens", "legacyTransfers", "legacyTokens"}

(***************************************************************************)
(* decodeEvent({abi, event, eventName, strict: false}) of the library:     *)
(* null unless the first key is the event's selector and the keys and the  *)
(* data hold the members of the event.                                     *)
(***************************************************************************)
decodeEvent(ev, selector, keyFelts, dataFelts) ==
    /\ Len(ev.keys) = 1 + keyFelts
    /\ Len(ev.data) = dataFelts
    /\ removeLeadingZeros(ev.keys[1]) = removeLeadingZeros(selector)
    /\ \A j \in 2..Len(ev.keys) : IsHex(ev.keys[j])
    /\ \A j \in DOMAIN ev.data : IsHex(ev.data[j])
    /\ keyFelts = 2 => ~Uint256Throws(ev.keys[2], ev.keys[3])
    /\ dataFelts = 4 => ~Uint256Throws(ev.data[3], ev.data[4])

(***************************************************************************)
(* transformData of the transfers indexer                                  *)
(***************************************************************************)
\* getActualFee: BigInt(receipt.meta.actualFee.amount).toString(), "0" on any error
getActualFee(receipt) ==
    IF receipt.hasFee /\ IsHex(receipt.amount) THEN BigIntOf(receipt.amount) ELSE {}

TransfersDecoded(ev) == decodeEvent(ev, TransferSelector, 0, 4)

\* receipt?.meta.actualFee.unit is a TypeError for a receipt without actualFee
FeeUnitThrows(receipt) == receipt.found /\ ~receipt.hasFee

FeeUnit(receipt) == IF receipt.found THEN receipt.unit ELSE "fri"

TransfersThrows(ev) == TransfersDecoded(ev) /\ FeeUnitThrows(ev.receipt)

TransferRecord(ev, tx) ==
    [tx |-> tx, from |-> ev.data[1], to |-> ev.data[2],
     value |-> Uint256ToBigInt(ev.data[3], ev.data[4]),
     fee |-> IF ev.receipt.found THEN getActualFee(ev.receipt) ELSE {},
     feeUnit |-> FeeUnit(ev.receipt)]

(***************************************************************************)
(* transformTokenEvents of the token indexer                               *)
(***************************************************************************)
TokensThrows(ev) == removeLeadingZerosThrows(At(ev.keys, 1))

TokenEventType(key) ==
    IF removeLeadingZeros(key) = removeLeadingZeros(TokenCreatedSelector)
    THEN "TokenCreated"
    ELSE IF removeLeadingZeros(key) = removeLeadingZeros(TokenUpgradedSelector)
    THEN "TokenUpgraded"
    ELSE ""

TokensDecoded(ev) ==
    /\ ~TokensThrows(ev)
    /\ TokenEventType(ev.keys[1]) # ""
    /\ decodeEvent(ev, ev.keys[1], 2, 0)

TokenRecord(ev, tx) ==
    [tx |-> tx, token_id |-> Number(Uint256ToBigInt(ev.keys[2], ev.keys[3])),
     event_type |-> TokenEventType(ev.keys[1])]

(***************************************************************************)
(* transform of transfers_indexer.ts and of tokenkit_indexer.ts            *)
(***************************************************************************)
transferEventData(ev) == ev.keys \o ev.data

LegacyTransferMatches(ev) ==
    /\ Len(transferEventData(ev)) = 5
    /\ removeLeadingZeros(transferEventData(ev)[1]) = removeLeadingZeros(TransferSelector)

LegacyTransferThrows(ev) ==
    /\ LegacyTransferMatches(ev)
    /\ Uint256Throws(transferEventData(ev)[4], transferEventData(ev)[5])

LegacyTransferRecord(ev, tx) ==
    [tx |-> tx, from |-> transferEventData(ev)[2], to |-> transferEventData(ev)[3],
     value |-> Uint256ToBigInt(transferEventData(ev)[4], transferEventData(ev)[5])]

LegacyTokenMatches(ev) ==
    /\ Len(transferEventData(ev)) = 3
    /\ TokenEventType(transferEventData(ev)[1]) # ""

\* converUint256ToNum(ev.event.keys[1], ev.event.keys[2])
LegacyTokenThrows(ev) ==
    /\ LegacyTokenMatches(ev)
    /\ Uint256Throws(At(ev.keys, 2), At(ev.keys, 3))

LegacyTokenRecord(ev, tx) ==
    [tx |-> tx, tokenId |-> Number(Uint256ToBigInt(ev.keys[2], ev.keys[3]))]

(***************************************************************************)
(* One iteration of a transform's loop over the events of the block: the  *)
(* event throws out of the transform, is pushed as a record, or is         *)
(* skipped.                                                                *)
(***************************************************************************)
Iterate(throws, produces, record) ==
    /\ dpc = "loop"
    /\ eventIndex < Len(events)
    /\ IF throws
       THEN /\ dpc' = "threw"
            /\ UNCHANGED <<eventIndex, out>>
       ELSE /\ out' = IF produces THEN Append(out, record) ELSE out
            /\ eventIndex' = eventIndex + 1
            /\ UNCHANGED dpc
    /\ UNCHANGED <<impl, events, keyVars, wsAtStart, cfg, pc, storeVars, streamVars, sendVars, kafkaVars,
                   connVars, histVars>>

TransfersIterate ==
    /\ impl = "transfers"
    /\ LET ev == events[eventIndex + 1]
       IN  Iterate(TransfersThrows(ev), TransfersDecoded(ev),
                   TransferRecord(ev, eventIndex + 1))

TokensIterate ==
    /\ impl = "tokens"
    /\ LET ev == events[eventIndex + 1]
       IN  Iterate(TokensThrows(ev), TokensDecoded(ev),
                   TokenRecord(ev, eventIndex + 1))

LegacyTransfersIterate ==
    /\ impl = "legacyTransfers"
    /\ LET ev == events[eventIndex + 1]
       IN  Iterate(LegacyTransferThrows(ev), LegacyTransferMatches(ev),
                   LegacyTransferRecord(ev, eventIndex + 1))

LegacyTokensIterate ==
    /\ impl = "legacyTokens"
    /\ LET ev == events[eventIndex + 1]
       IN  Iterate(LegacyTokenThrows(ev), LegacyTokenMatches(ev),
                   LegacyTokenRecord(ev, eventIndex + 1))

TransformReturns ==
    /\ dpc = "loop"
    /\ eventIndex = Len(events)
    /\ dpc' = "returned"
    /\ UNCHANGED <<impl, events, eventIndex, out, keyVars, wsAtStart, cfg, pc, storeVars, streamVars, sendVars,
                   kafkaVars, connVars, histVars>>

DecodeInit ==
    /\ impl \in Decoders
    /\ events \in Blocks
    /\ eventIndex = 0
    /\ out = <<>>
    /\ dpc = "loop"
    /\ indexers = <<>>
    /\ shared = <<>>
    /\ written = {}
    /\ wsAtStart = NoSocket
    /\ cfg = CHOOSE c \in Configs : TRUE
    /\ pc = "new"
    /\ store = Absent
    /\ redisClient = FALSE
    /\ startingBlock = cfg.startingBlock
    /\ cursor = 0
    /\ nmsgs = 0
    /\ msg = NoMsg
    /\ attempt = 0
    /\ success = FALSE
    /\ requests = 0
    /\ waits = <<>>
    /\ result = NoResult
    /\ lastError = ""
    /\ reconnects = 0
    /\ requestHeaders = NoHeaders
    /\ kafkaProducer = FALSE
    /\ connects = 0
    /\ transferChunks = <<>>
    /\ i = 0
    /\ chunkSuccess = FALSE
    /\ allSuccessful = TRUE
    /\ produced = <<>>
    /\ attemptLog = <<>>
    /\ wsState = "null"
    /\ wsOrig = "none"
    /\ ctxRedisPlugin = FALSE
    /\ redisAccess = "none"
    /\ startup = NoStartup
    /\ hookOutcome = "none"
    /\ failed = FALSE

DecodeNext ==
    \/ TransfersIterate
    \/ TokensIterate
    \/ LegacyTransfersIterate
    \/ LegacyTokensIterate
    \/ TransformReturns

DecodeSpec == DecodeInit /\ [][DecodeNext]_vars

(***************************************************************************)
(* The checkpoint key.  Two indexers run redisPlugin against one store.    *)
(* A string is the sequence of its characters; the key is built as the     *)
(* template literal builds it, by concatenation around ":".                *)
(***************************************************************************)

DefaultKeyPrefix == <<"a", "p", "i", "b", "a", "r", "a">>

LastBlockSuffix == <<"l", "a", "s", "t", "_", "b", "l", "o", "c", "k">>

\* options.keyPrefix: omitted or empty (<<>>), one word, or a word with ":".
KeyPrefixes == {<<>>, <<"a">>, <<"a", ":", "b">>, DefaultKeyPrefix}

\* options.indexerId: any non-empty string.
IndexerIds == {<<"c">>, <<"b", ":", "c">>, <<"b">>}

RedisOptions == [keyPrefix : KeyPrefixes, indexerId : IndexerIds]

\* options.keyPrefix || 'apibara': the empty string is falsy as well.
keyPrefixOf(options) ==
    IF options.keyPrefix = <<>> THEN DefaultKeyPrefix ELSE options.keyPrefix

\* `${keyPrefix}:${indexerId}:last_block`
redisKey(options) ==
    keyPrefixOf(options) \o <<":">> \o options.indexerId \o <<":">>
        \o LastBlockSuffix

\* redisClient.get(redisKey) on the shared store, as indexer n reads it.
SharedGet(n) ==
    IF redisKey(indexers[n]) \in DOMAIN shared
    THEN shared[redisKey(indexers[n])]
    ELSE Null

\* persistBlock of indexer n: redisClient.set(redisKey, blockNumber).
SharedPersist(n, blockNumber) ==
    /\ indexers # <<>>
    /\ shared' = [key \in DOMAIN shared \cup {redisKey(indexers[n])} |->
                    IF key = redisKey(indexers[n]) THEN blockNumber
                    ELSE shared[key]]
    /\ written' = written \cup {n}
    /\ UNCHANGED <<indexers, decodeVars, wsAtStart, cfg, pc, storeVars, streamVars,
                   sendVars, kafkaVars, producerVars, connVars, histVars>>

KeyInit ==
    /\ indexers \in [1..2 -> RedisOptions]
    /\ shared = [key \in {} |-> Null]
    /\ written = {}
    /\ wsAtStart = NoSocket
    /\ impl = "transfers"
    /\ events = <<>>
    /\ eventIndex = 1
    /\ out = <<>>
    /\ dpc = "off"
    /\ cfg = CHOOSE c \in Configs : TRUE
    /\ pc = "new"
    /\ store = Absent
    /\ redisClient = FALSE
    /\ startingBlock = cfg.startingBlock
    /\ cursor = 0
    /\ nmsgs = 0
    /\ msg = NoMsg
    /\ attempt = 0
    /\ success = FALSE
    /\ requests = 0
    /\ waits = <<>>
    /\ result = NoResult
    /\ lastError = ""
    /\ reconnects = 0
    /\ requestHeaders = NoHeaders
    /\ kafkaProducer = FALSE
    /\ connects = 0
    /\ transferChunks = <<>>
    /\ i = 0
    /\ chunkSuccess = FALSE
    /\ allSuccessful = TRUE
    /\ produced = <<>>
    /\ attemptLog = <<>>
    /\ wsState = "null"
    /\ wsOrig = "none"
    /\ ctxRedisPlugin = FALSE
    /\ redisAccess = "none"
    /\ startup = NoStartup
    /\ hookOutcome = "none"
    /\ failed = FALSE

KeyNext == \E n \in 1..2, blockNumber \in 1..MaxStored : SharedPersist(n, blockNumber)

KeySpec == KeyInit /\ [][KeyNext]_vars

(***************************************************************************)
(* One sendToWebSocket from a socket that is not open, with a server that  *)
(* accepts every connection the program opens before the retry delay has   *)
(* passed.  The specification starts at the call of sendToWebSocket for    *)
(* the first message of the stream and ends when the message hook is done. *)
(***************************************************************************)
MaxRecoveryAttempts == 4

RecoveryRetries ==
    {[given |-> FALSE, maxAttempts |-> Omitted, delayMs |-> Omitted]} \cup
    [given : {TRUE}, maxAttempts : 0..MaxRecoveryAttempts,
     delayMs : {Omitted, ConfiguredDelayMs}]

\* The socket at the call with no reconnect timer pending: the socket of a
\* reconnect that has closed, or the first socket, still connecting.
RecoveryStarts ==
    { [state |-> "CLOSED", orig |-> "spent"],
      [state |-> "CONNECTING", orig |-> "current"] }

RecoveryInit ==
    /\ cfg \in [sink : {"websocket"},
                retry : RecoveryRetries,
                chunkSize : {1},
                keyed : {TRUE},
                sendOnEveryMessage : {TRUE},
                startingBlock : {0},
                redisUrl : {TRUE},
                indexerId : {TRUE},
                target : {TRUE},
                headers : {NoHeaders}]
    /\ msg \in {m \in DataMessages(0) : m.transform = "ok"}
    /\ wsAtStart \in RecoveryStarts
    /\ wsState = wsAtStart.state
    /\ wsOrig = wsAtStart.orig
    /\ pc = "wsLoop"
    /\ cursor = 1
    /\ nmsgs = 1
    /\ store = Absent
    /\ redisClient = FALSE
    /\ ctxRedisPlugin = FALSE
    /\ startingBlock = 0
    /\ attempt = 0
    /\ success = FALSE
    /\ requests = 0
    /\ waits = <<>>
    /\ result = NoResult
    /\ lastError = ""
    /\ reconnects = 0
    /\ requestHeaders = NoHeaders
    /\ kafkaProducer = FALSE
    /\ connects = 0
    /\ transferChunks = <<>>
    /\ i = 0
    /\ chunkSuccess = FALSE
    /\ allSuccessful = TRUE
    /\ produced = <<>>
    /\ attemptLog = <<>>
    /\ redisAccess = "none"
    /\ startup = NoStartup
    /\ hookOutcome = "none"
    /\ failed = FALSE
    /\ impl = "transfers"
    /\ events = <<>>
    /\ eventIndex = 0
    /\ out = <<>>
    /\ dpc = "off"
    /\ indexers = <<>>
    /\ shared = <<>>
    /\ written = {}

\* The socket a reconnect has opened is still connecting.
ReconnectConnecting == wsState = "CONNECTING" /\ wsOrig # "current"

\* The server accepts the connection while the send loop waits.
SocketOpensInDelay ==
    /\ pc \in {"wsWaitReconnect", "wsWait"}
    /\ SocketOpens

\* The delay ends after the server has accepted the socket of a reconnect.
ReconnectAfterDelay ==
    /\ ~ReconnectConnecting
    /\ WebSocketWaitReconnect

RecoveryNext ==
    \/ WebSocketAttempt
    \/ SocketOpensInDelay
    \/ ReplacedSocketCloses
    \/ ReconnectTimer
    \/ ReconnectAfterDelay
    \/ WebSocketWait
    \/ WebSocketFailure

RecoverySpec == RecoveryInit /\ [][RecoveryNext]_vars /\ WF_vars(RecoveryNext)

(***************************************************************************)
(* One sendToKafka through a connected producer, with the split of the     *)
(* transfers into chunks taken one iteration at a time and with chunk      *)
(* sizes below 1.  The specification starts where sendToKafka has chosen   *)
(* between the chunked and the single message.                             *)
(***************************************************************************)
SplitChunkSizes == (0 - 1)..MaxChunkSize

\* Array.prototype.slice(from, to): a negative index counts from the end
RelativeIndex(index, length) ==
    IF index < 0 THEN Max(length + index, 0) ELSE Min(index, length)

SliceRelative(arr, from, to) ==
    LET first == RelativeIndex(from, Len(arr))
        last == RelativeIndex(to, Len(arr))
    IN  [k \in 1..Max(last - first, 0) |-> arr[first + k]]

\* The chunks a split makes when it ends are at most the transfers; the
\* list of a split that goes on is followed up to one chunk more.
SplitRecorded == MaxTransfers + 1

\* for (let i = 0; i < data.transfers.length; i += chunkSize)
\*     transferChunks.push(data.transfers.slice(i, i + chunkSize))
KafkaSplitStep ==
    /\ pc = "kafkaSplit"
    /\ IF i < msg.n
       THEN /\ transferChunks' =
                 IF Len(transferChunks) < SplitRecorded
                 THEN Append(transferChunks,
                        SliceRelative(Transfers(msg.n), i, i + cfg.chunkSize))
                 ELSE transferChunks
            /\ i' = IF Len(transferChunks) < SplitRecorded
                    THEN i + cfg.chunkSize ELSE i
            /\ UNCHANGED <<pc, allSuccessful>>
       ELSE /\ i' = 0
            /\ allSuccessful' = TRUE
            /\ pc' = "kafkaChunk"
            /\ UNCHANGED transferChunks
    /\ UNCHANGED <<decodeVars, keyVars, wsAtStart, cfg, storeVars, streamVars,
                   sendVars, chunkSuccess, produced, attemptLog, connVars,
                   histVars>>

SplitInit ==
    /\ cfg \in [sink : {"kafka"},
                retry : RetryOptions,
                chunkSize : SplitChunkSizes,
                keyed : {TRUE},
                sendOnEveryMessage : {TRUE},
                startingBlock : {0},
                redisUrl : {TRUE},
                indexerId : {TRUE},
                target : {TRUE},
                headers : {NoHeaders}]
    /\ msg \in {m \in [tag : {"data"}, block : {0}, n : 0..MaxTransfers,
                       transform : {"ok"}, serializable : BOOLEAN,
                       finality : {"finalized"}] :
                  m.serializable \/ NeedsChunking(m.n, cfg.chunkSize)}
    /\ pc = IF NeedsChunking(msg.n, cfg.chunkSize) THEN "kafkaSplit"
            ELSE "kafkaSingle"
    /\ produced = IF NeedsChunking(msg.n, cfg.chunkSize) THEN <<>>
                  ELSE <<[key |-> <<BlockNumberOf(msg)>>,
                          transfers |-> Transfers(msg.n),
                          chunkIndex |-> Omitted,
                          totalChunks |-> Omitted,
                          originalCount |-> Omitted]>>
    /\ attempt = IF NeedsChunking(msg.n, cfg.chunkSize) THEN 0 ELSE 1
    /\ kafkaProducer = TRUE
    /\ connects = 1
    /\ transferChunks = <<>>
    /\ i = 0
    /\ chunkSuccess = FALSE
    /\ allSuccessful = TRUE
    /\ attemptLog = <<>>
    /\ cursor = 1
    /\ nmsgs = 1
    /\ store = Absent
    /\ redisClient = FALSE
    /\ ctxRedisPlugin = FALSE
    /\ startingBlock = 0
    /\ success = FALSE
    /\ requests = 0
    /\ waits = <<>>
    /\ result = NoResult
    /\ lastError = ""
    /\ reconnects = 0
    /\ requestHeaders = NoHeaders
    /\ wsState = "null"
    /\ wsOrig = "none"
    /\ wsAtStart = NoSocket
    /\ redisAccess = "none"
    /\ startup = NoStartup
    /\ hookOutcome = "none"
    /\ failed = FALSE
    /\ impl = "transfers"
    /\ events = <<>>
    /\ eventIndex = 0
    /\ out = <<>>
    /\ dpc = "off"
    /\ indexers = <<>>
    /\ shared = <<>>
    /\ written = {}

SplitNext ==
    \/ KafkaSplitStep
    \/ KafkaChunkBegin
    \/ KafkaChunkAttempt
    \/ KafkaChunkExhausted
    \/ KafkaChunksReturn
    \/ KafkaSingleAttempt
    \/ KafkaSingleFallThrough

SplitSpec == SplitInit /\ [][SplitNext]_vars /\ WF_vars(SplitNext)

(***************************************************************************)
(* Properties of the checkpoint store's error handling.                    *)
(***************************************************************************)
\* C15: getLastProcessedBlock returns null exactly when it has no client, the
\* read fails or the key is absent, and a value otherwise; run:before, having
\* got null from it, ends with the starting block as configured and the
\* store available.
NullCheckpointStartsAtConfigured ==
    /\ getLastProcessedBlock(FALSE, store, TRUE) = Null
    /\ getLastProcessedBlock(TRUE, store, FALSE) = Null
    /\ getLastProcessedBlock(TRUE, store, TRUE) = Null <=> store = Absent
    /\ (pc = "sinkBefore" /\ startup.pingOk) =>
         /\ startup.lastBlock = Null <=> (~startup.readOk \/ store = Absent)
         /\ startup.lastBlock = Null =>
              (startingBlock = cfg.startingBlock /\ redisClient)

\* C15: run:before has ended after a failed read of a stored checkpoint
ReadFailedAtStartup ==
    /\ pc = "sinkBefore"
    /\ startup.pingOk
    /\ ~startup.readOk
    /\ store = 2
    /\ startup.lastBlock = Null
    /\ startingBlock = cfg.startingBlock

\* C16: persistBlock leaves the stored value unchanged when the client is not
\* initialized and when the write fails; the message hook of the checkpoint
\* plugin never throws: the step that ends it hands the message on to the
\* sink's hook, with the stored value unchanged or equal to the block number
\* of the message.
PersistFailureSwallowed ==
    /\ [](\A b \in 0..(cursor + 1) :
            /\ persistBlock(FALSE, store, b, TRUE) = store
            /\ persistBlock(FALSE, store, b, FALSE) = store
            /\ persistBlock(TRUE, store, b, FALSE) = store)
    /\ [][pc = "redisMsg" =>
            /\ pc' \in {"redisMsg", "sinkMsg"}
            /\ store' \in {store, msg.block}
            /\ ~redisClient => store' = store]_vars

\* C16: without a client, the hook has handled the data message of block 1
\* and returned with the stored checkpoint 2 unchanged
HookReturnedWithoutClient ==
    /\ pc = "sinkMsg"
    /\ msg.tag = "data"
    /\ msg.block = 1
    /\ ~redisClient
    /\ store = 2

(***************************************************************************)
(* Properties of a checkpoint store whose initialization failed            *)
(***************************************************************************)
InitFailed ==
    /\ pc \in {"sinkBefore", "ready"}
    /\ ~startup.createOk \/ ~startup.pingOk

StoreUnavailable == pc \notin {"new", "misconfigured", "constructed"} /\ ~redisClient

\* C17 (as stated): after client creation or the ping failed, no later call
\* throws into its caller: persistBlock, getLastProcessedBlock and also the
\* access through useRedis() end without an exception.
FailedInitNeverThrows ==
    InitFailed => (~redisClient /\ redisAccess # "threw")

\* C17 (amended): after client creation or the ping failed the client handle is
\* null and stays null; persistBlock is a no-op and getLastProcessedBlock
\* returns null without throwing, and the store is never written again; but the
\* plugin was never registered in the context, so useRedis() throws "Redis
\* plugin is not available in context" into its caller.
FailedInitDisablesStore ==
    /\ [](InitFailed => StoreUnavailable)
    /\ [](StoreUnavailable =>
            /\ ~ctxRedisPlugin
            /\ \A b \in 0..(cursor + 1) : \A writeOk \in BOOLEAN :
                 persistBlock(redisClient, store, b, writeOk) = store
            /\ \A readOk \in BOOLEAN :
                 getLastProcessedBlock(redisClient, store, readOk) = Null
            /\ useRedis(ctxRedisPlugin) = "threw"
            /\ redisAccess \in {"none", "threw"})
    /\ [][StoreUnavailable => (~redisClient' /\ ~ctxRedisPlugin' /\ store' = store)]_vars

UseRedisThrewAfterFailedPing ==
    /\ pc = "ready"
    /\ startup.createOk
    /\ ~startup.pingOk
    /\ ~redisClient
    /\ store = 2
    /\ redisAccess = "threw"

MissingTargetFatalAtConstruction ==
    /\ pc \notin {"new", "misconfigured"} =>
         (cfg.redisUrl /\ cfg.indexerId /\ cfg.target)
    /\ ~cfg.target => (attempt = 0 /\ ~result.done)

MissingUrlRetriedAsDeliveryFailure ==
    /\ cfg.sink = "webhook"
    /\ cfg.redisUrl /\ cfg.indexerId
    /\ ~cfg.target
    /\ pc = "idle"
    /\ result.done /\ ~result.success
    /\ attempt = 3
    /\ requests = 3
    /\ waits = <<1000, 1000>>

(***************************************************************************)
(* Properties of the webhook request headers                               *)
(***************************************************************************)
Posted == cfg.sink = "webhook" /\ requests >= 1

\* C20 (as stated): every webhook POST carries Content-Type: application/json,
\* whatever header map the caller supplied, and every other caller-supplied
\* header unchanged.
ContentTypeAlwaysJson ==
    Posted =>
        /\ requestHeaders["Content-Type"] = "application/json"
        /\ \A k \in DOMAIN cfg.headers \ {"Content-Type"} :
             requestHeaders[k] = cfg.headers[k]

\* C20 (amended): every webhook POST carries exactly the caller-supplied headers
\* and Content-Type; every caller-supplied header is sent unchanged, a
\* caller-supplied Content-Type included, and Content-Type is application/json
\* when the caller's map does not set it.
CallerHeadersOverrideDefault ==
    /\ Posted =>
        /\ DOMAIN requestHeaders = DOMAIN cfg.headers \cup {"Content-Type"}
        /\ \A k \in DOMAIN cfg.headers : requestHeaders[k] = cfg.headers[k]
        /\ "Content-Type" \notin DOMAIN cfg.headers =>
             requestHeaders["Content-Type"] = "application/json"
    /\ requests = 0 => requestHeaders = NoHeaders

PostedWithCallerContentType ==
    /\ Posted
    /\ "Content-Type" \in DOMAIN cfg.headers
    /\ requestHeaders["Content-Type"] = "text/plain"
    /\ requestHeaders["Authorization"] = "Bearer token"
    /\ success

(***************************************************************************)
(* Properties of the send decision of the message hooks                    *)
(***************************************************************************)
HookDone == pc \in {"idle", "stopped"} /\ hookOutcome # "none"

\* C21: with sendOnEveryMessage left at false a sink's message hook sends the
\* data of finalized blocks and of no other block: once the hook is done with a
\* data message whose transform produced data, a send was made exactly when the
\* message is finalized.
DefaultSendsFinalizedOnly ==
    (/\ ~cfg.sendOnEveryMessage
     /\ HookDone
     /\ msg.tag = "data"
     /\ msg.transform = "ok") =>
        (result.done <=> msg.finality = "finalized")

FinalizedBlockNotSent ==
    /\ cfg.sink = "webhook"
    /\ cfg.target
    /\ ~cfg.sendOnEveryMessage
    /\ HookDone
    /\ hookOutcome = "returned"
    /\ msg.tag = "data"
    /\ msg.transform = "ok"
    /\ msg.serializable
    /\ msg.finality = "finalized"
    /\ ~result.done
    /\ requests = 0

(***************************************************************************)
(* Properties of the block decoders (checked under DecodeSpec)             *)
(***************************************************************************)
ThrowsOn(ev) ==
    CASE impl = "transfers" -> TransfersThrows(ev)
      [] impl = "tokens" -> TokensThrows(ev)
      [] impl = "legacyTransfers" -> LegacyTransferThrows(ev)
      [] impl = "legacyTokens" -> LegacyTokenThrows(ev)

ProducesOn(ev) ==
    CASE impl = "transfers" -> TransfersDecoded(ev)
      [] impl = "tokens" -> TokensDecoded(ev)
      [] impl = "legacyTransfers" -> LegacyTransferMatches(ev)
      [] impl = "legacyTokens" -> LegacyTokenMatches(ev)

\* the positions of the events that yield a record when decoded on their own
Decodable == {j \in DOMAIN events : ProducesOn(events[j]) /\ ~ThrowsOn(events[j])}

\* C22: decoding is per event: no event makes the transform raise, and once
\* the transform is over the records of the events that decode on their own
\* are all there, one per event and in the order of the events.
DecodingIsPerEvent ==
    /\ dpc # "threw"
    /\ dpc = "returned" =>
         /\ {out[j].tx : j \in DOMAIN out} = Decodable
         /\ Len(out) = Cardinality(Decodable)
         /\ \A a, b \in DOMAIN out : a < b => out[a].tx < out[b].tx

MalformedEventDropsSibling ==
    /\ impl = "tokens"
    /\ events = <<TokenCreatedEvent, NoKeys>>
    /\ dpc = "threw"
    /\ eventIndex = 1
    /\ Len(out) = 1

\* the positions of the events of five elements whose first element is the
\* Transfer selector up to leading zeros and letter case
TransferShaped ==
    {j \in DOMAIN events :
        /\ Len(events[j].keys) + Len(events[j].data) = 5
        /\ removeLeadingZeros((events[j].keys \o events[j].data)[1]) =
             removeLeadingZeros(TransferSelector)}

\* C23: the transfer transform ends without an error with exactly one record
\* for each event of five elements that carries the Transfer selector, in the
\* order of the events, and nothing for any other event.
TransferByArityAndSelector ==
    impl = "legacyTransfers" =>
        /\ dpc # "threw"
        /\ dpc = "returned" =>
             /\ {out[j].tx : j \in DOMAIN out} = TransferShaped
             /\ Len(out) = Cardinality(TransferShaped)
             /\ \A a, b \in DOMAIN out : a < b => out[a].tx < out[b].tx

TransferShapedEventRaises ==
    /\ impl = "legacyTransfers"
    /\ events = <<WellFormedTransfer(NoReceipt), UndecodableValue>>
    /\ TransferShaped = {1, 2}
    /\ dpc = "threw"
    /\ Len(out) = 1

\* C24: fee extraction fails soft: the transfers transform never raises on a
\* receipt, and the record of an event whose receipt is missing, lacks the fee
\* field or holds a malformed amount carries the fee "0" (the integer zero).
FeeFailsSoft ==
    impl = "transfers" =>
        /\ \A j \in DOMAIN events :
             (eventIndex = j - 1 /\ TransfersDecoded(events[j])) => dpc # "threw"
        /\ \A j \in DOMAIN out :
             LET receipt == events[out[j].tx].receipt
             IN  (~receipt.found \/ ~receipt.hasFee \/ ~IsHex(receipt.amount)) =>
                     out[j].fee = {}

ReceiptWithoutFeeRaises ==
    /\ impl = "transfers"
    /\ events = <<WellFormedTransfer(ReceiptWithBadAmount), WellFormedTransfer(ReceiptWithoutFee)>>
    /\ dpc = "threw"
    /\ eventIndex = 1
    /\ Len(out) = 1
    /\ out[1].fee = {}
    /\ getActualFee(ReceiptWithoutFee) = {}

\* the uint256 of an emitted record, and the limbs it was decoded from
EmittedValues ==
    {<<out[j].value, events[out[j].tx].data[3], events[out[j].tx].data[4]>> :
        j \in {n \in DOMAIN out : impl = "transfers"}} \cup
    {<<out[j].token_id, events[out[j].tx].keys[2], events[out[j].tx].keys[3]>> :
        j \in {n \in DOMAIN out : impl = "tokens"}} \cup
    {<<out[j].value, (events[out[j].tx].keys \o events[out[j].tx].data)[4],
                     (events[out[j].tx].keys \o events[out[j].tx].data)[5]>> :
        j \in {n \in DOMAIN out : impl = "legacyTransfers"}} \cup
    {<<out[j].tokenId, events[out[j].tx].keys[2], events[out[j].tx].keys[3]>> :
        j \in {n \in DOMAIN out : impl = "legacyTokens"}}

\* C25: every emitted uint256 is exactly low + high * 2^128 of the limbs it was
\* decoded from, whatever its size.
Uint256IsExact ==
    \A e \in EmittedValues :
        e[1] = BigIntOf(e[2]) \cup {p + LimbBits : p \in BigIntOf(e[3])}

TokenIdAbove53Altered ==
    /\ impl = "tokens"
    /\ events = <<TokenAbove53>>
    /\ dpc = "returned"
    /\ Len(out) = 1
    /\ Uint256ToBigInt(FeltAbove53, Felt0) = {0, 53}
    /\ out[1].token_id = {53}

(***************************************************************************)
(* Properties of the checkpoint key                                        *)
(***************************************************************************)

\* The (prefix, identity) pair of an indexer, the prefix with its default.
KeyPair(options) == <<keyPrefixOf(options), options.indexerId>>

\* C26: two indexers whose (prefix, identity) pairs differ have different
\* checkpoint keys, and a block persisted by one of them never changes what
\* the other one reads back.
CheckpointKeysIsolated ==
    [][\A n \in 1..2, m \in 1..2 :
          (/\ indexers # <<>>
           /\ KeyPair(indexers[n]) # KeyPair(indexers[m])
           /\ written' = written \cup {n}
           /\ shared' # shared)
          => (/\ redisKey(indexers[n]) # redisKey(indexers[m])
              /\ SharedGet(m)' = SharedGet(m))]_vars

\* Two indexers with different options, of which only the first has
\* persisted a block, and the second reads that block as its checkpoint.
OtherIndexerReadsForeignBlock ==
    /\ indexers # <<>>
    /\ KeyPair(indexers[1]) # KeyPair(indexers[2])
    /\ written = {1}
    /\ SharedGet(2) # Null

(***************************************************************************)
(* Properties of the hex normalization                                     *)
(***************************************************************************)

\* The strings the token decoder has normalized so far: the first key of
\* every event it went through, and the two selectors it compares them with.
NormalizedStrings ==
    {events[j].keys[1] : j \in {n \in 1..eventIndex : events[n].keys # <<>>}}
        \cup {TokenCreatedSelector, TokenUpgradedSelector}

\* The digits of a hex string: what follows 0x, without its leading zeros
\* and without regard to letter case.
HexDigits(a) == StripZeros(SubSeq(Upper(toLowerCase(a)), 3, Len(a)))

\* C27: two hex strings have the same normal form exactly when they have the
\* same digits, that is when they differ only in leading zeros after 0x and
\* in letter case; and normalizing a normal form changes nothing.
HexNormalizationCanonical ==
    impl = "tokens" =>
        \A a \in NormalizedStrings, b \in NormalizedStrings :
            (IsHex(a) /\ IsHex(b)) =>
                /\ (removeLeadingZeros(a) = removeLeadingZeros(b))
                       <=> (HexDigits(a) = HexDigits(b))
                /\ removeLeadingZeros(removeLeadingZeros(a)) = removeLeadingZeros(a)

\* The token decoder went through a block that holds the transfer selector
\* once zero-padded and once in upper case, and both have one normal form.
PaddedAndUpperCaseNormalizedAlike ==
    /\ impl = "tokens"
    /\ eventIndex = 2
    /\ Padded(TransferSelector) \in NormalizedStrings
    /\ Upper(TransferSelector) \in NormalizedStrings
    /\ Padded(TransferSelector) # Upper(TransferSelector)
    /\ removeLeadingZeros(Padded(TransferSelector)) = removeLeadingZeros(Upper(TransferSelector))
    /\ removeLeadingZeros(OtherSelector) # removeLeadingZeros(TransferSelector)

(***************************************************************************)
(* Properties of the queue send result                                     *)
(***************************************************************************)

\* C28: for every retry option, a zero maxAttempts included, a queue send
\* that returns success has had a producer.send accepted for the single
\* message, or for every chunk of a chunked payload; and no queue send
\* returns through the 'Unknown error' statement after the single-message
\* retry loop.
QueueSuccessSound ==
    (cfg.sink = "kafka" /\ result.done) =>
        /\ result.success =>
             IF transferChunks # <<>>
             THEN \A c \in 0..(Len(transferChunks) - 1) :
                      \E k \in AttemptsOf(c) : attemptLog[k].ok
             ELSE \E k \in AttemptsOf(Omitted) : attemptLog[k].ok
        /\ result.error # "Unknown error"

\* A chunked queue send with a zero maxAttempts has returned success
\* without one call of producer.send.
ChunkedSuccessWithoutSend ==
    /\ cfg.sink = "kafka"
    /\ maxAttempts = 0
    /\ result.done
    /\ result.success
    /\ transferChunks # <<>>
    /\ attemptLog = <<>>

(***************************************************************************)
(* Properties of the recovery of a socket send                             *)
(***************************************************************************)

\* The send of a serializable payload has returned.
RecoverySendDone == cfg.sink = "websocket" /\ msg.serializable /\ result.done

\* C29: a send that begins with the socket not open and no reconnect timer
\* pending, every reconnect opening within one delay, returns success
\* exactly when maxAttempts is 3 or more.
NotOpenRecoversIffThree ==
    (RecoverySendDone /\ wsAtStart.state # "OPEN") =>
        (result.success <=> maxAttempts >= 3)

\* C29: a send that begins with the socket closed and no reconnect timer
\* pending, every reconnect opening within one delay, returns, and returns
\* success exactly when maxAttempts is 3 or more.
ClosedRecoversIffThree ==
    /\ [](RecoverySendDone /\ wsAtStart.state = "CLOSED"
            => (result.success <=> maxAttempts >= 3))
    /\ (pc = "wsLoop" /\ wsAtStart.state = "CLOSED") ~> result.done

\* A send that began with the socket closed has succeeded with maxAttempts 3,
\* at its third attempt and after two delays and two reconnect calls.
ClosedRecoveredAtThird ==
    /\ RecoverySendDone
    /\ wsAtStart.state = "CLOSED"
    /\ maxAttempts = 3
    /\ result.success
    /\ attempt = 2
    /\ reconnects = 2
    /\ Len(waits) = 2

(***************************************************************************)
(* Properties of the checkpoint read                                       *)
(***************************************************************************)

\* C30: whatever is stored under the key, getLastProcessedBlock returns no
\* checkpoint or a non-negative integer; when the stored value is not a
\* decimal integer, run:before finds no checkpoint, keeps the configured
\* starting block and leaves the store available for persistBlock.
CheckpointReadTotal ==
    (pc = "sinkBefore" /\ startup.createOk /\ startup.pingOk) =>
        /\ startup.lastBlock = Null \/ startup.lastBlock >= 0
        /\ (store = Garbage /\ startup.readOk) =>
             /\ startup.lastBlock = Null
             /\ startingBlock = cfg.startingBlock
             /\ redisClient

\* run:before has read a stored value that is not a decimal integer:
\* getLastProcessedBlock returned NaN and the store is unavailable.
GarbageCheckpointDisablesStore ==
    /\ pc = "sinkBefore"
    /\ store = Garbage
    /\ startup.readOk
    /\ startup.lastBlock = NaN
    /\ startingBlock = cfg.startingBlock
    /\ ~redisClient

(***************************************************************************)
(* Properties of the termination and the cost of a queue send              *)
(***************************************************************************)

\* The split, once it has ended, has made the chunks of TransferChunks.
SplitMatchesTransferChunks ==
    (cfg.chunkSize >= 1 /\ pc \in {"kafkaChunk", "kafkaChunkSend"}) =>
        transferChunks = TransferChunks(Transfers(msg.n), cfg.chunkSize)

\* C31, second clause: with chunkSize and maxAttempts at least 1 a send that
\* has returned has made at most ceil(n / chunkSize) * maxAttempts calls of
\* producer.send for a payload of n transfers.
SendsWithinBudget ==
    (result.done /\ cfg.chunkSize >= 1 /\ maxAttempts >= 1) =>
        requests <= CeilDiv(msg.n, cfg.chunkSize) * maxAttempts

\* The same, a payload sent as one message counted as one chunk.
SendsWithinBudgetOfMessages ==
    (result.done /\ cfg.chunkSize >= 1 /\ maxAttempts >= 1) =>
        requests <= Max(CeilDiv(msg.n, cfg.chunkSize), 1) * maxAttempts

\* C31: sendToKafka terminates for every payload and every integer
\* chunkSize, those below 1 included: the send returns, or the hook throws
\* out of it.
SendToKafkaTerminates == <>(result.done \/ hookOutcome = "threw")

\* The send terminates when the chunk size is 1 or more.
SendTerminatesWithPositiveChunkSize == cfg.chunkSize >= 1 => SendToKafkaTerminates

\* With a chunk size below 1 the index of the split never passes the first
\* transfer, so the condition of the loop, i < length, is true at every
\* iteration: the loop of the code has no last iteration.
SplitConditionStaysTrue ==
    (pc = "kafkaSplit" /\ cfg.chunkSize <= 0 /\ msg.n >= 1) => (i <= 0 /\ i < msg.n)

\* The split of a payload with transfers and a chunk size below 1 has made
\* more chunks than the payload has transfers, and its index has not moved
\* past the first transfer.
SplitRunsOn ==
    /\ pc = "kafkaSplit"
    /\ cfg.chunkSize <= 0
    /\ msg.n >= 1
    /\ i <= 0
    /\ Len(transferChunks) > msg.n

====
